---- MODULE Spec2Model ----
(***************************************************************************)
(* Extraction and short-form resolution of legal citations                 *)
(* (delschlangen/bluebook-cite, src/backend/app).                          *)
(*                                                                         *)
(*   SpecResolver   DocumentContextAnalyzer.analyze_citation_sequence      *)
(*   SpecApi        the same method of the copy the API imports            *)
(*   SpecExtract    CitationExtractor.extract_all                          *)
(*   SpecCalls      CitationCompleter and BluebookFormatter, one call      *)
(*   SpecManager    ShortFormManager                                       *)
(*   SpecAnalyze    the analyze endpoints                                  *)
(* and specifications of the same methods on other samples.                *)
(*                                                                         *)
(* Python values: an Optional[str] field is a string or None, an           *)
(* Optional[int] field is an integer or NoneInt, an Optional[List[str]]    *)
(* field is a sequence (None and [] are both <<>>: the code only tests     *)
(* their truthiness).                                                      *)
(***************************************************************************)
EXTENDS Integers, Sequences, FiniteSets, TLC

VARIABLES
    \* ---- analyze_citation_sequence (context_analyzer.py:83-223)
    citations,          \* the input list, as far as the loop has read it
    suggestions,        \* suggestions = []
    seen,               \* seen: Dict[str, CitationContext]
    footnote_history,   \* footnote_history: Dict[int, List[str]]
    last_cite_key,      \* last_cite_key: Optional[str]
    last_fn,            \* last_fn: int
    footnote_position,  \* footnote_position: Dict[int, int]
    pc,                 \* "loop" | "done" (returned) | "raised" (exception)
    \* ---- the DocumentContextAnalyzer instance (context_analyzer.py:26-34)
    self,               \* the instance's fields (an analyzer or a ShortFormManager)
    fresh,              \* <<citations, suggestions>> of its first call, once returned
    \* ---- extract_all (extractor.py:65-87)
    family,             \* index of the pattern whose finditer is running
    scan,               \* where that finditer resumes (end of its last match)
    matched_spans,      \* matched_spans: List[Tuple[int, int]]
    extracted,          \* citations: List[Citation]
    candidates,         \* every match the finditers have yielded so far
    markers,            \* matches of PATTERNS["footnote_marker"], once scanned
    xpc,                \* "extract" | "sort" | "footnotes" | "done" | "raised"
    \* ---- the analyze endpoints (main.py:112-164, 285-355)
    text,               \* the document text handed to extract_all
    completed_citations,\* completed_citations: List[Citation]
    \* ---- one call of a service method (lookup_service.py, bluebook_rules.py)
    request,            \* the Citation passed to the method
    response            \* the call and what it returned, once it has

resolverVars == <<citations, suggestions, seen, footnote_history, last_cite_key,
                  last_fn, footnote_position, pc, self, fresh>>
extractVars == <<family, scan, matched_spans, extracted, candidates, markers, xpc>>
endpointVars == <<text, completed_citations>>
callVars == <<request, response>>
vars == <<citations, suggestions, seen, footnote_history, last_cite_key,
          last_fn, footnote_position, pc, self, fresh,
          family, scan, matched_spans, extracted, candidates, markers, xpc,
          text, completed_citations, request, response>>

\* ------------------------------------------------------------------ bounds
\* Longest citation list handed to analyze_citation_sequence.
MaxCites == 3
\* Largest footnote number (of a citation, of a marker, of a supra target).
MaxFn == 2
\* Length of the text handed to extract_all.
TextLen == 2
\* Most regex matches (over all patterns) in one text.
MaxMatches == 2
\* Most footnote markers in one text.
MaxMarkers == 2
\* citations extract_all returns for one request of an analyze endpoint
MaxDocument == 2

\* ------------------------------------------------------- Python values
None == "<None>"
NoneInt == 0 - 1
\* None of an Optional[dict]; it compares with dicts, and is falsy as {} is
NoneDict == [k \in {} |-> 0]

\* bool(s) of an Optional[str]
Truthy(s) == s # None /\ s # ""
\* f"{s}" of an Optional[str]
Str(s) == IF s = None THEN "None" ELSE s

Char(s, i) == SubSeq(s, i, i)

\* str.split(): the words between runs of blanks
RECURSIVE SplitAt(_, _, _, _)
SplitAt(s, i, cur, acc) ==
    IF i > Len(s)
    THEN IF cur = "" THEN acc ELSE Append(acc, cur)
    ELSE IF Char(s, i) = " "
         THEN SplitAt(s, i + 1, "", IF cur = "" THEN acc ELSE Append(acc, cur))
         ELSE SplitAt(s, i + 1, cur \o Char(s, i), acc)
Split(s) == SplitAt(s, 1, "", <<>>)

\* sep.join(words)
RECURSIVE Join(_, _)
Join(words, sep) ==
    IF words = <<>> THEN ""
    ELSE IF Len(words) = 1 THEN words[1]
    ELSE words[1] \o sep \o Join(Tail(words), sep)

\* sub in s
Contains(s, sub) ==
    \E i \in 1..(Len(s) - Len(sub) + 1) : SubSeq(s, i, i + Len(sub) - 1) = sub
\* s.startswith(p)
StartsWith(s, p) == Len(s) >= Len(p) /\ SubSeq(s, 1, Len(p)) = p
\* s.count(ch) for a one-character ch
CountChar(s, ch) == Cardinality({i \in 1..Len(s) : Char(s, i) = ch})

\* s.strip(chars): drop leading and trailing characters that occur in chars
RECURSIVE LStrip(_, _)
LStrip(s, chars) ==
    IF s # "" /\ Contains(chars, Char(s, 1))
    THEN LStrip(SubSeq(s, 2, Len(s)), chars) ELSE s
RECURSIVE RStrip(_, _)
RStrip(s, chars) ==
    IF s # "" /\ Contains(chars, Char(s, Len(s)))
    THEN RStrip(SubSeq(s, 1, Len(s) - 1), chars) ELSE s
Strip(s, chars) == RStrip(LStrip(s, chars), chars)

UpperAlpha == "ABCDEFGHIJKLMNOPQRSTUVWXYZ"
LowerAlpha == "abcdefghijklmnopqrstuvwxyz"
LowerChar(ch) ==
    IF \E i \in 1..26 : Char(UpperAlpha, i) = ch
    THEN Char(LowerAlpha, CHOOSE i \in 1..26 : Char(UpperAlpha, i) = ch)
    ELSE ch
\* s.lower()
RECURSIVE Lower(_)
Lower(s) == IF s = "" THEN "" ELSE LowerChar(Char(s, 1)) \o Lower(SubSeq(s, 2, Len(s)))

UpperChar(ch) ==
    IF \E i \in 1..26 : Char(LowerAlpha, i) = ch
    THEN Char(UpperAlpha, CHOOSE i \in 1..26 : Char(LowerAlpha, i) = ch)
    ELSE ch
\* s.upper()
RECURSIVE Upper(_)
Upper(s) == IF s = "" THEN "" ELSE UpperChar(Char(s, 1)) \o Upper(SubSeq(s, 2, Len(s)))

\* bool(n) of an Optional[int]
TruthyInt(n) == n # NoneInt /\ n # 0

\* words[:n]
Take(words, n) == SubSeq(words, 1, IF Len(words) < n THEN Len(words) ELSE n)

\* ------------------------------------------------------------- Citation
\* models/citation.py:29-73, the fields the services read; every optional
\* field unset. confidence_score is in hundredths.
BlankCitation ==
    [id |-> "", type |-> "other", raw_text |-> "", position_start |-> 0,
     position_end |-> 0, footnote_number |-> NoneInt,
     parties |-> <<>>, volume |-> None, reporter |-> None, page |-> None,
     pincite |-> None, author |-> None, title |-> None, title_number |-> None,
     code |-> None, section |-> None, suggested_correction |-> None,
     is_short_form |-> FALSE, short_form_type |-> None,
     status |-> "complete", court |-> None, year |-> NoneInt, journal |-> None,
     publisher |-> None, edition |-> None, subsection |-> None, url |-> None,
     access_date |-> None, confidence_score |-> 0, lookup_results |-> NoneDict]

\* Sample citations the input lists are drawn from.
Roe ==
    [BlankCitation EXCEPT !.type = "case",
        !.raw_text = "Roe v. Wade, 410 U.S. 113 (1973)",
        !.parties = <<"Roe", "Wade">>, !.volume = "410", !.reporter = "U.S.",
        !.page = "113"]
Usc1983 ==
    [BlankCitation EXCEPT !.type = "statute", !.raw_text = "42 U.S.C. § 1983",
        !.title_number = "42", !.code = "U.S.C.", !.section = "1983"]
Sunstein ==
    [BlankCitation EXCEPT !.type = "law_review",
        !.raw_text = "Cass R. Sunstein, On Analogical Reasoning, 106 Harv. L. Rev. 741, 745 (1993)",
        !.author = "Cass R. Sunstein", !.title = "On Analogical Reasoning",
        !.volume = "106", !.page = "741", !.pincite = "745"]
BlankAuthorBook ==
    [BlankCitation EXCEPT !.type = "book", !.raw_text = "Commentaries (1765)",
        !.author = " ", !.title = "Commentaries"]
Website ==
    [BlankCitation EXCEPT !.type = "website", !.raw_text = "https://example.com/a"]
IdShort ==
    [BlankCitation EXCEPT !.type = "other", !.raw_text = "Id. at 115",
        !.is_short_form = TRUE, !.short_form_type = "id", !.pincite = "115"]
CitationPool == {Roe, Usc1983, Sunstein, BlankAuthorBook, Website, IdShort}

\* Citation.footnote_number: Optional[int]
FootnoteNumbers == {NoneInt} \cup (1..MaxFn)

\* ------------------------------------------------- DocumentContextAnalyzer
\* fn = citation.footnote_number or 0
FnOf(citation) ==
    IF citation.footnote_number = NoneInt THEN 0 ELSE citation.footnote_number

\* _get_citation_key
GetCitationKey(citation) ==
    IF citation.type = "case" /\ citation.parties # <<>>
    THEN "case:" \o citation.parties[1] \o ":"
         \o (IF Len(citation.parties) > 1 THEN citation.parties[2] ELSE "")
    ELSE IF citation.type = "statute"
    THEN "statute:" \o Str(citation.title_number) \o ":" \o Str(citation.section)
    ELSE IF citation.type = "regulation"
    THEN "reg:" \o Str(citation.title_number) \o ":" \o Str(citation.section)
    ELSE IF citation.type = "law_review"
    THEN "article:" \o Str(citation.author) \o ":" \o Str(citation.title)
    ELSE IF citation.type = "book"
    THEN "book:" \o Str(citation.author) \o ":" \o Str(citation.title)
    ELSE None

\* cite_key and cite_key in seen
KeySeen(cite_key, seenMap) == Truthy(cite_key) /\ cite_key \in DOMAIN seenMap

\* _can_use_id
CanUseId(cite_key, current_fn, history) ==
    IF current_fn <= 0 THEN FALSE
    ELSE IF (current_fn - 1) \notin DOMAIN history THEN FALSE
    ELSE IF Len(history[current_fn - 1]) # 1 THEN FALSE
    ELSE history[current_fn - 1][1] = cite_key

\* A within-footnote test that is off by one footnote (fn > 1): the
\* properties of the within-footnote rule must tell it from the real one.
CanUseWithinFootnoteIdFromTwo(fn, lastFn, lastKey, cite_key) ==
    fn = lastFn /\ lastKey = cite_key /\ fn > 1

\* can_use_within_footnote_id
CanUseWithinFootnoteId(fn, lastFn, lastKey, cite_key) ==
    fn = lastFn /\ lastKey = cite_key /\ fn > 0

\* can_use_cross_footnote_id
CanUseCrossFootnoteId(fn, lastFn, isFirst, cite_key, history) ==
    fn # lastFn /\ isFirst /\ CanUseId(cite_key, fn, history)

\* _format_supra raises IndexError at author.split()[-1]
FormatSupraRaises(citation, context) ==
    /\ ~Truthy(context.hereinafter_name)
    /\ Truthy(citation.author)
    /\ Split(citation.author) = <<>>

\* A supra form that prefers the author's surname to the hereinafter name:
\* the properties of the alias must tell it from _format_supra.
FormatSupraAuthorFirst(citation, context) ==
    LET prefix == IF Truthy(citation.author)
                  THEN Split(citation.author)[Len(Split(citation.author))]
                  ELSE IF Truthy(context.hereinafter_name) THEN context.hereinafter_name
                       ELSE ""
        note == "supra note " \o ToString(context.first_occurrence_footnote)
        base == IF prefix # "" THEN prefix \o ", " \o note ELSE note
    IN  IF Truthy(citation.pincite) THEN base \o ", at " \o citation.pincite \o "."
        ELSE base \o "."

\* _format_supra
FormatSupra(citation, context) ==
    LET prefix == IF Truthy(context.hereinafter_name) THEN context.hereinafter_name
                  ELSE IF Truthy(citation.author)
                       THEN Split(citation.author)[Len(Split(citation.author))]
                       ELSE ""
        note == "supra note " \o ToString(context.first_occurrence_footnote)
        base == IF prefix # "" THEN prefix \o ", " \o note ELSE note
    IN  IF Truthy(citation.pincite) THEN base \o ", at " \o citation.pincite \o "."
        ELSE base \o "."

\* PARTY_ABBREVIATIONS (Table 6), the entries that bear on the sample parties
PartyAbbreviations ==
    [w \in {"board", "company", "corporation", "department", "education"} |->
        CASE w = "board" -> "Bd."
          [] w = "company" -> "Co."
          [] w = "corporation" -> "Corp."
          [] w = "department" -> "Dep't"
          [] w = "education" -> "Educ."]

\* abbreviate_party_name: drop a leading "The ", abbreviate whole words
AbbreviatePartyName(party) ==
    LET result == IF StartsWith(Lower(party), "the ")
                  THEN SubSeq(party, 5, Len(party)) ELSE party
        words == Split(result)
        abbr(w) == IF Lower(w) \in DOMAIN PartyAbbreviations
                   THEN PartyAbbreviations[Lower(w)] ELSE w
    IN  Join([i \in 1..Len(words) |-> abbr(words[i])], " ")

NonDistinctive == {"United States", "State", "People", "Commonwealth"}

\* _format_short_case
FormatShortCase(citation, context) ==
    IF citation.parties = <<>>
    THEN "supra note " \o ToString(context.first_occurrence_footnote) \o "."
    ELSE
    LET first == citation.parties[1]
        chosen == IF first \in NonDistinctive /\ Len(citation.parties) > 1
                  THEN citation.parties[2] ELSE first
        short_name == AbbreviatePartyName(chosen)
        base == "*" \o short_name \o "*, " \o Str(citation.volume) \o " "
                \o Str(citation.reporter)
    IN  IF Truthy(citation.volume) /\ Truthy(citation.reporter)
           /\ Truthy(citation.pincite)
        THEN base \o " at " \o citation.pincite \o "."
        ELSE IF Truthy(citation.volume) /\ Truthy(citation.reporter)
                /\ Truthy(citation.page)
        THEN base \o " at " \o citation.page \o "."
        ELSE "*" \o short_name \o "*, supra note "
             \o ToString(context.first_occurrence_footnote) \o "."

GenericStarts ==
    {"The ", "A ", "An ", "On ", "In ", "Notes on", "Introduction to",
     "Analysis of", "Study of"}

\* _get_hereinafter_reason
GetHereinafterReason(citation) ==
    IF Truthy(citation.title) /\ Len(citation.title) > 60
    THEN "Long title (" \o ToString(Len(citation.title))
         \o " chars) - consider adding [hereinafter]"
    ELSE IF Truthy(citation.author)
            /\ (Contains(citation.author, " & ") \/ CountChar(citation.author, ",") >= 2)
    THEN "Multiple authors - consider adding [hereinafter]"
    ELSE IF /\ citation.type \in {"law_review", "book"}
            /\ Truthy(citation.title)
            /\ \E start \in GenericStarts :
                  StartsWith(citation.title, start) /\ Len(citation.title) > 40
    THEN "Generic title pattern - consider adding [hereinafter]"
    ELSE None

SkipWords == {"the", "a", "an", "on", "in", "of", "to", "for", "and"}

\* the loop of _generate_hereinafter: up to three distinctive title words
RECURSIVE DistinctiveWords(_, _)
DistinctiveWords(words, acc) ==
    IF words = <<>> \/ Len(acc) >= 3 THEN acc
    ELSE LET clean_word == Strip(words[1], ",:;.\"'")
         IN  IF Lower(clean_word) \notin SkipWords /\ Len(clean_word) > 2
             THEN DistinctiveWords(Tail(words), Append(acc, clean_word))
             ELSE DistinctiveWords(Tail(words), acc)

\* _generate_hereinafter raises IndexError at author.split()[-1]
GenerateHereinafterRaises(citation) ==
    ~Truthy(citation.title) /\ Truthy(citation.author) /\ Split(citation.author) = <<>>

\* _generate_hereinafter
GenerateHereinafter(citation) ==
    IF Truthy(citation.title)
    THEN LET words == Split(citation.title)
             distinctive_words == DistinctiveWords(words, <<>>)
         IN  IF distinctive_words # <<>> THEN Join(distinctive_words, " ")
             ELSE Join(Take(words, 3), " ")
    ELSE IF Truthy(citation.author)
    THEN Split(citation.author)[Len(Split(citation.author))]
    ELSE "Source"

\* CitationContext(...) of a first occurrence (models/citation.py:75-83)
NewContext(citation, fn) ==
    [citation_id |-> citation.id,
     first_occurrence_footnote |-> fn,
     full_citation |-> IF Truthy(citation.suggested_correction)
                       THEN citation.suggested_correction ELSE citation.raw_text,
     short_forms_used |-> <<>>,
     hereinafter_name |-> IF GetHereinafterReason(citation) # None
                          THEN GenerateHereinafter(citation) ELSE None,
     last_used_footnote |-> fn,
     times_cited |-> 1]

\* A decision that tries the supra form before the cross-footnote rule: the
\* properties of the order of the rules must tell it from the real one.
DecisionSupraBeforeCrossId(citation, fn, isFirst) ==
    LET cite_key == GetCitationKey(citation)
    IN  IF KeySeen(cite_key, seen)
        THEN IF CanUseWithinFootnoteId(fn, last_fn, last_cite_key, cite_key)
             THEN "id"
             ELSE IF citation.type # "case" THEN "supra"
             ELSE IF CanUseCrossFootnoteId(fn, last_fn, isFirst, cite_key,
                                           footnote_history)
             THEN "id"
             ELSE "short_case"
        ELSE "full"

\* the branch one loop iteration takes for a citation that is no short form
Decision(citation, fn, isFirst) ==
    LET cite_key == GetCitationKey(citation)
    IN  IF KeySeen(cite_key, seen)
        THEN IF \/ CanUseWithinFootnoteId(fn, last_fn, last_cite_key, cite_key)
                \/ CanUseCrossFootnoteId(fn, last_fn, isFirst, cite_key, footnote_history)
             THEN "id"
             ELSE IF citation.type # "case" THEN "supra" ELSE "short_case"
        ELSE "full"

\* whether the iteration raises instead of appending a suggestion
IterationRaises(citation, fn, isFirst) ==
    LET cite_key == GetCitationKey(citation)
        decision == Decision(citation, fn, isFirst)
    IN  /\ ~citation.is_short_form
        /\ \/ decision = "supra" /\ FormatSupraRaises(citation, seen[cite_key])
           \/ /\ decision = "full"
              /\ Truthy(cite_key)
              /\ GetHereinafterReason(citation) # None
              /\ GenerateHereinafterRaises(citation)

\* the suggestion dict one iteration appends
Suggestion(citation, fn, position, isFirst) ==
    LET cite_key == GetCitationKey(citation)
        decision == Decision(citation, fn, isFirst)
        within == CanUseWithinFootnoteId(fn, last_fn, last_cite_key, cite_key)
        reason == GetHereinafterReason(citation)
        base == [citation_id |-> citation.id,
                 current_form |-> citation.raw_text,
                 suggested_form |-> None,
                 short_form_type |-> None,
                 explanation |-> None,
                 footnote_number |-> fn,
                 position_in_footnote |-> position,
                 can_use_string_cite |-> FALSE,
                 add_hereinafter |-> None,
                 multiple_references |-> NoneInt]
    IN  IF citation.is_short_form
        THEN [base EXCEPT !.short_form_type = citation.short_form_type,
                          !.suggested_form = citation.raw_text]
        ELSE IF decision = "id"
        THEN [base EXCEPT
                !.suggested_form = IF Truthy(citation.pincite)
                                   THEN "Id. at " \o citation.pincite \o "."
                                   ELSE "Id.",
                !.short_form_type = "id",
                !.explanation =
                    IF within
                    THEN "Same source as immediately preceding citation in this footnote"
                    ELSE "Same source as the only citation in the previous footnote",
                !.can_use_string_cite = ~isFirst /\ last_cite_key # cite_key]
        ELSE IF decision = "supra"
        THEN [base EXCEPT
                !.suggested_form = FormatSupra(citation, seen[cite_key]),
                !.short_form_type = "supra",
                !.explanation = "Previously cited in note "
                    \o ToString(seen[cite_key].first_occurrence_footnote),
                !.can_use_string_cite = ~isFirst /\ last_cite_key # cite_key]
        ELSE IF decision = "short_case"
        THEN [base EXCEPT
                !.suggested_form = FormatShortCase(citation, seen[cite_key]),
                !.short_form_type = "short_case",
                !.explanation = "Short form for previously cited case",
                !.can_use_string_cite = ~isFirst /\ last_cite_key # cite_key]
        ELSE [base EXCEPT
                !.suggested_form = IF Truthy(citation.suggested_correction)
                                   THEN citation.suggested_correction
                                   ELSE citation.raw_text,
                !.short_form_type = "full",
                !.add_hereinafter = IF Truthy(cite_key) /\ reason # None
                                    THEN GenerateHereinafter(citation) ELSE None,
                !.explanation = IF Truthy(cite_key) /\ reason # None
                                THEN reason ELSE None]

\* A `seen` update that forgets a first occurrence outside any footnote:
\* the first-occurrence properties must tell it from the real one.
SeenAfterForgetful(citation, fn, isFirst) ==
    LET cite_key == GetCitationKey(citation)
    IN  IF KeySeen(cite_key, seen)
        THEN [seen EXCEPT ![cite_key].last_used_footnote = fn,
                          ![cite_key].times_cited = @ + 1]
        ELSE IF Truthy(cite_key) /\ fn > 0
        THEN [k \in DOMAIN seen \cup {cite_key} |->
                 IF k = cite_key THEN NewContext(citation, fn) ELSE seen[k]]
        ELSE seen

\* A `seen` update that makes a new context at every occurrence of a key:
\* the properties of a context's lifecycle must tell it from the real one.
SeenAfterReplacing(citation, fn, isFirst) ==
    LET cite_key == GetCitationKey(citation)
    IN  IF KeySeen(cite_key, seen)
        THEN [seen EXCEPT ![cite_key] =
                [NewContext(citation, fn) EXCEPT
                    !.times_cited = seen[cite_key].times_cited + 1]]
        ELSE IF Truthy(cite_key)
        THEN [k \in DOMAIN seen \cup {cite_key} |->
                 IF k = cite_key THEN NewContext(citation, fn) ELSE seen[k]]
        ELSE seen

\* A `seen` update that leaves the context alone when the citation is given
\* "Id.": the properties of the counters must tell it from the real one.
SeenAfterSkippingId(citation, fn, isFirst) ==
    LET cite_key == GetCitationKey(citation)
    IN  IF KeySeen(cite_key, seen)
        THEN IF Decision(citation, fn, isFirst) = "id" THEN seen
             ELSE [seen EXCEPT ![cite_key].last_used_footnote = fn,
                               ![cite_key].times_cited = @ + 1]
        ELSE IF Truthy(cite_key)
        THEN [k \in DOMAIN seen \cup {cite_key} |->
                 IF k = cite_key THEN NewContext(citation, fn) ELSE seen[k]]
        ELSE seen

\* seen after one iteration
SeenAfter(citation, fn, isFirst) ==
    LET cite_key == GetCitationKey(citation)
    IN  IF KeySeen(cite_key, seen)
        THEN [seen EXCEPT ![cite_key].last_used_footnote = fn,
                          ![cite_key].times_cited = @ + 1]
        ELSE IF Truthy(cite_key)
        THEN [k \in DOMAIN seen \cup {cite_key} |->
                 IF k = cite_key THEN NewContext(citation, fn) ELSE seen[k]]
        ELSE seen

\* footnote_history after one iteration
HistoryAfter(cite_key, fn) ==
    IF fn > 0
    THEN LET had == IF fn \in DOMAIN footnote_history THEN footnote_history[fn] ELSE <<>>
             now == IF Truthy(cite_key) THEN Append(had, cite_key) ELSE had
         IN  [n \in DOMAIN footnote_history \cup {fn} |->
                 IF n = fn THEN now ELSE footnote_history[n]]
    ELSE footnote_history

\* A last_cite_key update that lets a short form carry its own key on: the
\* properties of the pass-through must tell it from the real one.
LastCiteKeyAfterKeepsChain(citation) ==
    IF citation.is_short_form THEN last_cite_key ELSE GetCitationKey(citation)

\* last_cite_key after one iteration (context_analyzer.py:128 and 215)
LastCiteKeyAfter(citation) ==
    IF citation.is_short_form THEN None ELSE GetCitationKey(citation)

\* One iteration of `for citation in citations` (context_analyzer.py:101-218).
\* The list's next element is any sample citation in any footnote.
Iterate(sample, number) ==
    /\ pc = "loop"
    /\ Len(citations) < MaxCites
    /\ LET citation == [sample EXCEPT !.id = "c" \o ToString(Len(citations) + 1),
                                      !.footnote_number = number]
           fn == FnOf(citation)
           position == IF fn \in DOMAIN footnote_position
                       THEN footnote_position[fn] + 1 ELSE 0
           isFirst == position = 0
           cite_key == GetCitationKey(citation)
       IN  /\ citations' = Append(citations, citation)
           /\ IF IterationRaises(citation, fn, isFirst)
              THEN /\ pc' = "raised"
                   /\ UNCHANGED <<suggestions, seen, footnote_history, last_cite_key,
                                  last_fn, footnote_position>>
              ELSE /\ pc' = pc
                   /\ footnote_position' =
                        [n \in DOMAIN footnote_position \cup {fn} |->
                            IF n = fn THEN position ELSE footnote_position[n]]
                   /\ suggestions' =
                        Append(suggestions, Suggestion(citation, fn, position, isFirst))
                   /\ last_fn' = fn
                   /\ last_cite_key' = LastCiteKeyAfter(citation)
                   /\ IF citation.is_short_form
                      THEN UNCHANGED <<seen, footnote_history>>
                      ELSE /\ seen' = SeenAfter(citation, fn, isFirst)
                           /\ footnote_history' = HistoryAfter(cite_key, fn)
    /\ UNCHANGED <<self, fresh>>
    /\ UNCHANGED <<extractVars, endpointVars, callVars>>

\* _add_infra_suggestions: suggestion i after the second pass
AddInfraSuggestion(i) ==
    LET suggestion == suggestions[i]
        later_refs == {j \in (i + 1)..Len(suggestions) :
                          /\ suggestions[j].short_form_type \in {"supra", "id", "short_case"}
                          /\ suggestions[j].footnote_number > suggestion.footnote_number}
    IN  IF /\ suggestion.short_form_type = "full"
           /\ Cardinality(later_refs) >= 2
           /\ suggestion.add_hereinafter = None
           /\ ("first:" \o suggestion.citation_id) \in DOMAIN seen
        THEN [suggestion EXCEPT !.multiple_references = Cardinality(later_refs)]
        ELSE suggestion

\* The list is exhausted: the second pass, then `return suggestions`
\* (context_analyzer.py:220-223).
Return ==
    /\ pc = "loop"
    /\ pc' = "done"
    /\ suggestions' = [i \in 1..Len(suggestions) |-> AddInfraSuggestion(i)]
    /\ UNCHANGED <<citations, seen, footnote_history, last_cite_key, last_fn,
                   footnote_position>>
    /\ UNCHANGED <<self, fresh>>
    /\ UNCHANGED <<extractVars, endpointVars, callVars>>

EmptyMap == [k \in {} |-> 0]

\* DocumentContextAnalyzer.__init__
InitialSelf ==
    [footnote_citations |-> EmptyMap,
     citation_first_use |-> EmptyMap,
     citation_contexts |-> EmptyMap,
     current_footnote_cites |-> <<>>,
     last_citation_key |-> None,
     last_footnote |-> 0]

ExtractIdle ==
    /\ family = 0
    /\ scan = 0
    /\ matched_spans = <<>>
    /\ extracted = <<>>
    /\ candidates = <<>>
    /\ markers = <<>>
    /\ xpc = "idle"

\* The locals of analyze_citation_sequence before the loop
\* (context_analyzer.py:92-99).
ResolverInit ==
    /\ citations = <<>>
    /\ suggestions = <<>>
    /\ seen = EmptyMap
    /\ footnote_history = EmptyMap
    /\ last_cite_key = None
    /\ last_fn = 0
    /\ footnote_position = EmptyMap
    /\ pc = "loop"
    /\ self = InitialSelf
    /\ fresh = <<>>

\* No endpoint is running and no service method has been called.
EndpointIdle ==
    /\ text = ""
    /\ completed_citations = <<>>
CallIdle ==
    /\ request = NoneDict
    /\ response = NoneDict

InitResolver == ResolverInit /\ ExtractIdle /\ EndpointIdle /\ CallIdle

NextResolver ==
    \/ \E sample \in CitationPool, number \in FootnoteNumbers : Iterate(sample, number)
    \/ Return

SpecResolver == InitResolver /\ [][NextResolver]_vars


\* -------------------------------------------- citations without key fields
\* Sample citations whose type-specific key fields are all unset, and the same
\* pass over lists drawn from them.
BlankCase ==
    [BlankCitation EXCEPT !.type = "case", !.raw_text = "410 U.S. 113 (1973)",
        !.volume = "410", !.reporter = "U.S.", !.page = "113"]
BlankStatute ==
    [BlankCitation EXCEPT !.type = "statute", !.raw_text = "Cal. Penal Code",
        !.code = "Cal. Penal Code"]
OtherBlankStatute ==
    [BlankCitation EXCEPT !.type = "statute", !.raw_text = "N.Y. Gen. Bus. Law",
        !.code = "N.Y. Gen. Bus. Law"]
BlankArticle ==
    [BlankCitation EXCEPT !.type = "law_review", !.raw_text = "106 Harv. L. Rev. 741",
        !.volume = "106", !.page = "741"]
BlankKeyPool == {BlankCase, BlankStatute, OtherBlankStatute, BlankArticle}

NextBlankKeys ==
    \/ \E sample \in BlankKeyPool, number \in FootnoteNumbers : Iterate(sample, number)
    \/ Return

SpecBlankKeys == InitResolver /\ [][NextBlankKeys]_vars

\* ------------------------------------------------ citations with an alias
\* Sample citations whose first occurrence is given a hereinafter name, and
\* the same pass over lists drawn from them.
AmarKatyal ==
    [BlankCitation EXCEPT !.type = "law_review",
        !.raw_text = "Akhil Reed Amar & Neal Kumar Katyal, Executive Privileges and Immunities, 108 Harv. L. Rev. 701 (1995)",
        !.author = "Akhil Reed Amar & Neal Kumar Katyal",
        !.title = "Executive Privileges and Immunities",
        !.volume = "108", !.page = "701"]
HartSacks ==
    [BlankCitation EXCEPT !.type = "book", !.raw_text = "Hart & Sacks (1994)",
        !.author = "Henry M. Hart & Albert M. Sacks", !.pincite = "12"]
HereinafterPool == {AmarKatyal, HartSacks, Sunstein, Roe}

NextHereinafter ==
    \/ \E sample \in HereinafterPool, number \in FootnoteNumbers : Iterate(sample, number)
    \/ Return

SpecHereinafter == InitResolver /\ [][NextHereinafter]_vars

\* ------------------------------------------- citations that call for an alias
\* Sample citations of several types that meet, or just miss, the tests of
\* _get_hereinafter_reason, and the same pass over lists drawn from them.
JointWebsite ==
    [BlankCitation EXCEPT !.type = "website",
        !.raw_text = "Amar & Katyal, https://example.com/executive-privileges",
        !.author = "Akhil Reed Amar & Neal Kumar Katyal",
        !.title = "Executive Privileges"]
HartSacksBook ==
    [BlankCitation EXCEPT !.type = "book",
        !.raw_text = "Henry M. Hart, The Legal Process: Basic Problems in the Making of Law (1994)",
        !.author = "Henry M. Hart",
        !.title = "The Legal Process: Basic Problems in the Making of Law"]
TitledStatute ==
    [BlankCitation EXCEPT !.type = "statute",
        !.raw_text = "The Sarbanes-Oxley Act of 2002, 15 U.S.C. § 7201",
        !.title = "The Sarbanes-Oxley Act of 2002, Public Law 107-204",
        !.title_number = "15", !.code = "U.S.C.", !.section = "7201"]
AliasPool == {JointWebsite, HartSacksBook, TitledStatute, Sunstein, AmarKatyal}

NextAliases ==
    \/ \E sample \in AliasPool, number \in FootnoteNumbers : Iterate(sample, number)
    \/ Return

SpecAliases == InitResolver /\ [][NextAliases]_vars

\* ------------------------------------------ citations whose keys run together
\* Sample citations whose key fields hold the ':' of the key format, are
\* empty or are unset, and the same pass over lists drawn from them.
ColonInTitle ==
    [BlankCitation EXCEPT !.type = "law_review",
        !.raw_text = "Henry Hart, Process: Cases, 1 Harv. L. Rev. 1",
        !.author = "Henry Hart", !.title = "Process: Cases"]
ColonInAuthor ==
    [BlankCitation EXCEPT !.type = "law_review",
        !.raw_text = "Henry Hart:Process, Cases, 2 Harv. L. Rev. 2",
        !.author = "Henry Hart:Process", !.title = " Cases"]
OneParty ==
    [BlankCitation EXCEPT !.type = "case", !.raw_text = "In re Roe",
        !.parties = <<"Roe">>]
EmptySecondParty ==
    [BlankCitation EXCEPT !.type = "case", !.raw_text = "Roe v. ",
        !.parties = <<"Roe", "">>]
KeyPool == {ColonInTitle, ColonInAuthor, OneParty, EmptySecondParty, Usc1983}

NextKeys ==
    \/ \E sample \in KeyPool, number \in FootnoteNumbers : Iterate(sample, number)
    \/ Return

SpecKeys == InitResolver /\ [][NextKeys]_vars

\* ------------------------------------------------------- repeated cases
\* Sample cases for the short case form, and the same pass over lists drawn
\* from them.
UnitedStatesNixon ==
    [BlankCitation EXCEPT !.type = "case",
        !.raw_text = "United States v. Nixon, 418 U.S. 683, 706 (1974)",
        !.parties = <<"United States", "Nixon">>, !.volume = "418",
        !.reporter = "U.S.", !.page = "683", !.pincite = "706"]
BrownBoard ==
    [BlankCitation EXCEPT !.type = "case", !.raw_text = "Brown v. Board of Education",
        !.parties = <<"Board of Education", "Brown">>]
DoeNoPage ==
    [BlankCitation EXCEPT !.type = "case", !.raw_text = "Doe v. Bolton, 410 U.S. ___",
        !.parties = <<"Doe", "Bolton">>, !.volume = "410", !.reporter = "U.S."]
CasePool == {Roe, UnitedStatesNixon, BrownBoard, DoeNoPage}

NextCases ==
    \/ \E sample \in CasePool, number \in FootnoteNumbers : Iterate(sample, number)
    \/ Return

SpecCases == InitResolver /\ [][NextCases]_vars

\* --------------------------------------------- one analyzer, several calls
\* analyze_citation_sequence is called again on the same instance: its locals
\* are created anew (context_analyzer.py:92-99); the instance is the same.
\* A variant that keeps `seen` between calls, as an instance field would,
\* comes first: the properties of repeated calls must tell it from the code.
AnalyzeAgainKeepingSeen ==
    /\ pc = "done"
    /\ fresh' = IF fresh = <<>> THEN <<citations, suggestions>> ELSE fresh
    /\ citations' = <<>>
    /\ suggestions' = <<>>
    /\ seen' = seen
    /\ footnote_history' = EmptyMap
    /\ last_cite_key' = None
    /\ last_fn' = 0
    /\ footnote_position' = EmptyMap
    /\ pc' = "loop"
    /\ UNCHANGED self
    /\ UNCHANGED <<extractVars, endpointVars, callVars>>

AnalyzeAgain ==
    /\ pc = "done"
    /\ fresh' = IF fresh = <<>> THEN <<citations, suggestions>> ELSE fresh
    /\ citations' = <<>>
    /\ suggestions' = <<>>
    /\ seen' = EmptyMap
    /\ footnote_history' = EmptyMap
    /\ last_cite_key' = None
    /\ last_fn' = 0
    /\ footnote_position' = EmptyMap
    /\ pc' = "loop"
    /\ UNCHANGED self
    /\ UNCHANGED <<extractVars, endpointVars, callVars>>

RepeatPool == {Roe}

NextDocuments ==
    \/ \E sample \in RepeatPool, number \in FootnoteNumbers : Iterate(sample, number)
    \/ Return
    \/ AnalyzeAgain

SpecDocuments == InitResolver /\ [][NextDocuments]_vars

\* ------------------------------------------ the analyzer the API imports
\* src/bluebook-citation-generator/backend/app/services/context_analyzer.py,
\* the copy main.py imports. _get_citation_key, _can_use_id, _format_supra
\* and _format_short_case read as in the other copy; the loop keeps no last
\* key, no last footnote and no position within the footnote.

\* _should_use_hereinafter
ApiShouldUseHereinafter(citation) ==
    \/ Truthy(citation.title) /\ Len(citation.title) > 60
    \/ /\ Truthy(citation.author)
       /\ Contains(citation.author, " & ") \/ CountChar(citation.author, ",") >= 2

\* _generate_hereinafter
ApiGenerateHereinafter(citation) ==
    IF Truthy(citation.title) THEN Join(Take(Split(citation.title), 3), " ")
    ELSE IF Truthy(citation.author)
    THEN Split(citation.author)[Len(Split(citation.author))]
    ELSE "Source"

\* CitationContext(...) of a first occurrence
ApiNewContext(citation, fn) ==
    [citation_id |-> citation.id,
     first_occurrence_footnote |-> fn,
     full_citation |-> IF Truthy(citation.suggested_correction)
                       THEN citation.suggested_correction ELSE citation.raw_text,
     short_forms_used |-> <<>>,
     hereinafter_name |-> IF ApiShouldUseHereinafter(citation)
                          THEN ApiGenerateHereinafter(citation) ELSE None,
     last_used_footnote |-> fn,
     times_cited |-> 1]

\* the branch one loop iteration takes for a citation that is no short form
ApiDecision(citation, fn) ==
    IF KeySeen(GetCitationKey(citation), seen)
    THEN IF CanUseId(GetCitationKey(citation), fn, footnote_history) THEN "id"
         ELSE IF citation.type # "case" THEN "supra" ELSE "short_case"
    ELSE "full"

\* whether the iteration raises instead of appending a suggestion
ApiIterationRaises(citation, fn) ==
    /\ ~citation.is_short_form
    /\ ApiDecision(citation, fn) = "supra"
    /\ FormatSupraRaises(citation, seen[GetCitationKey(citation)])

\* the suggestion dict one iteration appends
ApiSuggestion(citation, fn, cite_key, decision) ==
    LET base == [citation_id |-> citation.id,
                 current_form |-> citation.raw_text,
                 suggested_form |-> None,
                 short_form_type |-> None,
                 explanation |-> None,
                 footnote_number |-> fn,
                 add_hereinafter |-> None]
    IN  IF citation.is_short_form
        THEN [base EXCEPT !.short_form_type = citation.short_form_type,
                          !.suggested_form = citation.raw_text]
        ELSE IF decision = "id"
        THEN [base EXCEPT
                !.suggested_form = IF Truthy(citation.pincite)
                                   THEN "Id. at " \o citation.pincite \o "."
                                   ELSE "Id.",
                !.short_form_type = "id",
                !.explanation = "Same source as immediately preceding citation"]
        ELSE IF decision = "supra"
        THEN [base EXCEPT
                !.suggested_form = FormatSupra(citation, seen[cite_key]),
                !.short_form_type = "supra",
                !.explanation = "Previously cited in note "
                    \o ToString(seen[cite_key].first_occurrence_footnote)]
        ELSE IF decision = "short_case"
        THEN [base EXCEPT
                !.suggested_form = FormatShortCase(citation, seen[cite_key]),
                !.short_form_type = "short_case",
                !.explanation = "Short form for previously cited case"]
        ELSE [base EXCEPT
                !.suggested_form = IF Truthy(citation.suggested_correction)
                                   THEN citation.suggested_correction
                                   ELSE citation.raw_text,
                !.short_form_type = "full",
                !.add_hereinafter =
                    IF Truthy(cite_key) /\ ApiShouldUseHereinafter(citation)
                    THEN ApiGenerateHereinafter(citation) ELSE None,
                !.explanation =
                    IF Truthy(cite_key) /\ ApiShouldUseHereinafter(citation)
                    THEN "Consider adding [hereinafter] for long title" ELSE None]

\* seen after one iteration
ApiSeenAfter(citation, fn, cite_key) ==
    IF KeySeen(cite_key, seen)
    THEN [seen EXCEPT ![cite_key].last_used_footnote = fn,
                      ![cite_key].times_cited = @ + 1]
    ELSE IF Truthy(cite_key)
    THEN [k \in DOMAIN seen \cup {cite_key} |->
             IF k = cite_key THEN ApiNewContext(citation, fn) ELSE seen[k]]
    ELSE seen

\* One iteration of `for citation in citations` (lines 70-148), for the
\* citation that is next in the list
ApiResolve(citation) ==
    /\ citations' = Append(citations, citation)
    /\ IF ApiIterationRaises(citation, FnOf(citation))
       THEN /\ pc' = "raised"
            /\ UNCHANGED <<suggestions, seen, footnote_history>>
       ELSE /\ pc' = pc
            /\ suggestions' =
                 Append(suggestions,
                        ApiSuggestion(citation, FnOf(citation), GetCitationKey(citation),
                                      ApiDecision(citation, FnOf(citation))))
            /\ IF citation.is_short_form
               THEN UNCHANGED <<seen, footnote_history>>
               ELSE /\ seen' = ApiSeenAfter(citation, FnOf(citation),
                                            GetCitationKey(citation))
                    /\ footnote_history' =
                         HistoryAfter(GetCitationKey(citation), FnOf(citation))

\* The list's next element is any sample citation in any footnote.
ApiIterate(sample, number) ==
    /\ pc = "loop"
    /\ Len(citations) < MaxCites
    /\ ApiResolve([sample EXCEPT !.id = "c" \o ToString(Len(citations) + 1),
                                 !.footnote_number = number])
    /\ UNCHANGED <<last_cite_key, last_fn, footnote_position, self, fresh>>
    /\ UNCHANGED <<extractVars, endpointVars, callVars>>

\* The list is exhausted: `return suggestions` (line 150)
ApiReturn ==
    /\ pc = "loop"
    /\ pc' = "done"
    /\ UNCHANGED <<citations, suggestions, seen, footnote_history, last_cite_key,
                   last_fn, footnote_position, self, fresh>>
    /\ UNCHANGED <<extractVars, endpointVars, callVars>>

\* The analyzer's fields (lines 12-15) and the locals before the loop
\* (lines 66-68); the fields and locals of the other copy stay as they are.
InitApi ==
    /\ citations = <<>>
    /\ suggestions = <<>>
    /\ seen = EmptyMap
    /\ footnote_history = EmptyMap
    /\ pc = "loop"
    /\ self = [footnote_citations |-> EmptyMap, citation_first_use |-> EmptyMap,
               citation_contexts |-> EmptyMap]
    /\ last_cite_key = None
    /\ last_fn = 0
    /\ footnote_position = EmptyMap
    /\ fresh = <<>>
    /\ ExtractIdle /\ EndpointIdle /\ CallIdle

NextApi ==
    \/ \E sample \in CitationPool, number \in FootnoteNumbers : ApiIterate(sample, number)
    \/ ApiReturn

SpecApi == InitApi /\ [][NextApi]_vars

\* ======================================================= CitationExtractor
\* The text is TextLen characters; its characters are not modelled. What the
\* regex engine reports for it is: each pattern's finditer yields non-empty,
\* non-overlapping matches from left to right, anywhere in the text.

\* The patterns in the order extract_all runs them (extractor.py:73-79 and
\* the two loops of _extract_cases, _extract_statutes, _extract_short_forms).
PatternOrder ==
    <<"case_complete", "case_incomplete", "statute_usc", "statute_state",
      "regulation_cfr", "law_review", "book", "id_citation", "supra_citation", "url">>

\* Two faulty overlap tests the span properties must tell from _overlaps:
\* one compares the candidate's start with the span's start, the other
\* counts touching spans as overlapping.
OverlapsStartOnly(start, end, spans) ==
    \E k \in 1..Len(spans) : ~(end <= spans[k][1] \/ start >= spans[k][1])
OverlapsClosed(start, end, spans) ==
    \E k \in 1..Len(spans) : ~(end < spans[k][1] \/ start > spans[k][2])
\* A third faulty test, which sees an overlap only when the candidate lies
\* wholly inside a span.
OverlapsInsideOnly(start, end, spans) ==
    \E k \in 1..Len(spans) : spans[k][1] <= start /\ end <= spans[k][2]

\* _overlaps
Overlaps(start, end, spans) ==
    \E k \in 1..Len(spans) : ~(end <= spans[k][1] \/ start >= spans[k][2])

\* The Citation(...) a loop body builds from a match of `pattern` at
\* [start, end). `pincite` is the optional pincite group (None: it did not
\* take part in the match); `note` is int(match.group(2)) of a supra match.
\* The captured texts themselves are not modelled.
BuildCitation(pattern, start, end, pincite, note) ==
    [pattern |-> pattern,
     type |-> CASE pattern \in {"case_complete", "case_incomplete"} -> "case"
                [] pattern \in {"statute_usc", "statute_state"} -> "statute"
                [] pattern = "regulation_cfr" -> "regulation"
                [] pattern = "law_review" -> "law_review"
                [] pattern = "book" -> "book"
                [] pattern \in {"id_citation", "supra_citation"} -> "other"
                [] pattern = "url" -> "website",
     status |-> CASE pattern \in {"case_incomplete", "url"} -> "incomplete"
                  [] pattern = "statute_state" -> "needs_verification"
                  [] OTHER -> "complete",
     position_start |-> start,
     position_end |-> end,
     footnote_number |-> IF pattern = "supra_citation" THEN note ELSE NoneInt,
     is_short_form |-> pattern \in {"id_citation", "supra_citation"},
     short_form_type |-> CASE pattern = "id_citation" -> "id"
                           [] pattern = "supra_citation" -> "supra"
                           [] OTHER -> None,
     pincite |-> pincite]

\* `match.lastindex >= 1` raises TypeError: lastindex is None when no group
\* of id_citation took part in the match (extractor.py:298).
BuildRaises(pattern, pincite) == pattern = "id_citation" /\ pincite = None

\* The optional pincite group of an id_citation match. The other patterns'
\* optional groups cannot leave lastindex unset and are not modelled.
PinciteGroups(pattern) ==
    IF pattern = "id_citation" THEN {None, "115"} ELSE {None}
\* int(match.group(2)) of a supra match: the note it points back to
NoteGroups(pattern) == IF pattern = "supra_citation" THEN 1..MaxFn ELSE {0}

\* One pass of a `for match in PATTERNS[...].finditer(text)` body: the next
\* match is at [start, end), at or after the end of the pattern's last match.
LoopBody(start, end, pincite, note) ==
    LET pattern == PatternOrder[family]
        rejected == Overlaps(start, end, matched_spans)
    IN  /\ Len(candidates) < MaxMatches
        /\ scan <= start /\ start < end /\ end <= TextLen
        /\ scan' = end
        /\ family' = family
        /\ markers' = markers
        /\ candidates' = Append(candidates,
              [pattern |-> pattern, start |-> start, end |-> end,
               pincite |-> pincite, accepted |-> ~rejected])
        /\ IF rejected
           THEN UNCHANGED <<matched_spans, extracted, xpc>>
           ELSE /\ matched_spans' = Append(matched_spans, <<start, end>>)
                /\ IF BuildRaises(pattern, pincite)
                   THEN xpc' = "raised" /\ extracted' = extracted
                   ELSE /\ xpc' = xpc
                        /\ extracted' = Append(extracted,
                              BuildCitation(pattern, start, end, pincite, note))

\* The finditer of the running pattern is exhausted: on to the next pattern,
\* or to the sort when it was the last.
LoopEnd ==
    /\ scan' = 0
    /\ family' = family + 1
    /\ xpc' = IF family = Len(PatternOrder) THEN "collected" ELSE xpc
    /\ UNCHANGED <<matched_spans, extracted, candidates, markers>>

Finditer ==
    \/ \E start \in 0..(TextLen - 1), end \in 1..TextLen :
          \E pincite \in PinciteGroups(PatternOrder[family]),
             note \in NoteGroups(PatternOrder[family]) :
                LoopBody(start, end, pincite, note)
    \/ LoopEnd

\* _extract_cases
ExtractCases ==
    /\ xpc = "extract" /\ family \in {1, 2}
    /\ Finditer
    /\ UNCHANGED <<resolverVars, endpointVars, callVars>>
\* _extract_statutes
ExtractStatutes ==
    /\ xpc = "extract" /\ family \in {3, 4}
    /\ Finditer
    /\ UNCHANGED <<resolverVars, endpointVars, callVars>>
\* _extract_regulations
ExtractRegulations ==
    /\ xpc = "extract" /\ family = 5
    /\ Finditer
    /\ UNCHANGED <<resolverVars, endpointVars, callVars>>
\* _extract_law_reviews
ExtractLawReviews ==
    /\ xpc = "extract" /\ family = 6
    /\ Finditer
    /\ UNCHANGED <<resolverVars, endpointVars, callVars>>
\* _extract_books
ExtractBooks ==
    /\ xpc = "extract" /\ family = 7
    /\ Finditer
    /\ UNCHANGED <<resolverVars, endpointVars, callVars>>
\* _extract_short_forms
ExtractShortForms ==
    /\ xpc = "extract" /\ family \in {8, 9}
    /\ Finditer
    /\ UNCHANGED <<resolverVars, endpointVars, callVars>>
\* _extract_urls
ExtractUrls ==
    /\ xpc = "extract" /\ family = 10
    /\ Finditer
    /\ UNCHANGED <<resolverVars, endpointVars, callVars>>

\* citations.sort(key=lambda c: c.position_start): a stable sort
RECURSIVE InsertByStart(_, _)
InsertByStart(sorted, c) ==
    IF sorted = <<>> THEN <<c>>
    ELSE IF sorted[Len(sorted)].position_start <= c.position_start
         THEN Append(sorted, c)
         ELSE Append(InsertByStart(SubSeq(sorted, 1, Len(sorted) - 1), c),
                     sorted[Len(sorted)])
RECURSIVE SortByStart(_)
SortByStart(cs) ==
    IF cs = <<>> THEN <<>>
    ELSE InsertByStart(SortByStart(SubSeq(cs, 1, Len(cs) - 1)), cs[Len(cs)])

\* What PATTERNS["footnote_marker"].finditer(text) can yield: up to
\* MaxMarkers (number, position) pairs, left to right, in any numbering. The
\* numbers are positive: a marker numbered 0 assigns nothing, as no marker.
MarkerLists ==
    LET Marker == [number : 1..MaxFn, position : 0..(TextLen - 1)]
    IN  UNION {{ms \in [1..n -> Marker] :
                   \A k \in 2..n : ms[k - 1].position < ms[k].position}
               : n \in 0..MaxMarkers}

\* the inner loop of _assign_footnotes: the number of the last marker at or
\* before `start`, or 0
RECURSIVE CurrentFootnote(_, _, _)
CurrentFootnote(footnote_positions, start, current) ==
    IF footnote_positions = <<>> THEN current
    ELSE IF footnote_positions[1].position <= start
         THEN CurrentFootnote(Tail(footnote_positions), start,
                              footnote_positions[1].number)
         ELSE current

\* _assign_footnotes, for one citation
AssignFootnote(citation, footnote_positions) ==
    LET current_footnote == CurrentFootnote(footnote_positions, citation.position_start, 0)
    IN  IF current_footnote > 0
        THEN [citation EXCEPT !.footnote_number = current_footnote]
        ELSE citation

\* extract_all, lines 81-87: sort, assign the footnote numbers, return.
SortAndAssignFootnotes ==
    /\ xpc = "collected"
    /\ \E ms \in MarkerLists :
          /\ markers' = ms
          /\ extracted' = LET sorted == SortByStart(extracted)
                          IN  [i \in 1..Len(sorted) |-> AssignFootnote(sorted[i], ms)]
    /\ xpc' = "done"
    /\ UNCHANGED <<family, scan, matched_spans, candidates>>
    /\ UNCHANGED <<resolverVars, endpointVars, callVars>>

ResolverIdle ==
    /\ citations = <<>>
    /\ suggestions = <<>>
    /\ seen = EmptyMap
    /\ footnote_history = EmptyMap
    /\ last_cite_key = None
    /\ last_fn = 0
    /\ footnote_position = EmptyMap
    /\ pc = "idle"
    /\ self = InitialSelf
    /\ fresh = <<>>

\* extract_all, lines 67-70
ExtractInit ==
    /\ family = 1
    /\ scan = 0
    /\ matched_spans = <<>>
    /\ extracted = <<>>
    /\ candidates = <<>>
    /\ markers = <<>>
    /\ xpc = "extract"

InitExtract == ExtractInit /\ ResolverIdle /\ EndpointIdle /\ CallIdle

NextExtract ==
    \/ ExtractCases
    \/ ExtractStatutes
    \/ ExtractRegulations
    \/ ExtractLawReviews
    \/ ExtractBooks
    \/ ExtractShortForms
    \/ ExtractUrls
    \/ SortAndAssignFootnotes

SpecExtract == InitExtract /\ [][NextExtract]_vars

\* ======================================================= BluebookFormatter
\* bluebook_rules.py. Years are ints (NoneInt: None); every other field is an
\* Optional[str].

\* html.unescape, for the entities clean_html's comment names
RECURSIVE Unescape(_)
Unescape(s) ==
    IF s = "" THEN ""
    ELSE IF StartsWith(s, "&amp;") THEN "&" \o Unescape(SubSeq(s, 6, Len(s)))
    ELSE IF StartsWith(s, "&lt;") THEN "<" \o Unescape(SubSeq(s, 5, Len(s)))
    ELSE IF StartsWith(s, "&gt;") THEN ">" \o Unescape(SubSeq(s, 5, Len(s)))
    ELSE Char(s, 1) \o Unescape(SubSeq(s, 2, Len(s)))

\* re.sub(r'<[^>]+>', '', s): a "<", one or more characters other than ">",
\* and the ">" that follows them
RECURSIVE RemoveTags(_)
RemoveTags(s) ==
    IF s = "" THEN ""
    ELSE LET closers == {j \in 2..Len(s) : Char(s, j) = ">"}
             close == CHOOSE j \in closers : \A k \in closers : j <= k
         IN  IF Char(s, 1) = "<" /\ closers # {} /\ close > 2
             THEN RemoveTags(SubSeq(s, close + 1, Len(s)))
             ELSE Char(s, 1) \o RemoveTags(SubSeq(s, 2, Len(s)))

\* clean_html
CleanHtml(html) ==
    IF ~Truthy(html) THEN html ELSE Strip(RemoveTags(Unescape(html)), " ")

\* REPORTER_ABBREVIATIONS, COURT_ABBREVIATIONS, JOURNAL_ABBREVIATIONS: the
\* entries that bear on the sample citations
ReporterAbbreviations ==
    [r \in {"United States Reports", "Supreme Court Reporter"} |->
        IF r = "United States Reports" THEN "U.S." ELSE "S. Ct."]
CourtAbbreviations ==
    [c \in {"Supreme Court", "Second Circuit"} |->
        IF c = "Supreme Court" THEN "" ELSE "2d Cir."]
JournalAbbreviations ==
    [j \in {"Harvard Law Review", "Yale Law Journal"} |->
        IF j = "Harvard Law Review" THEN "Harv. L. Rev." ELSE "Yale L.J."]

GetReporterAbbreviation(reporter) ==
    IF reporter \in DOMAIN ReporterAbbreviations
    THEN ReporterAbbreviations[reporter] ELSE reporter
GetCourtAbbreviation(court) ==
    IF court \in DOMAIN CourtAbbreviations THEN CourtAbbreviations[court] ELSE court
GetJournalAbbreviation(journal) ==
    IF journal \in DOMAIN JournalAbbreviations
    THEN JournalAbbreviations[journal] ELSE journal

\* _format_court_year
FormatCourtYear(court, year) ==
    IF ~TruthyInt(year) THEN ""
    ELSE IF ~Truthy(court) THEN ToString(year)
    ELSE IF GetCourtAbbreviation(court) = "" \/ Contains(court, "U.S.")
         THEN ToString(year)
         ELSE GetCourtAbbreviation(court) \o " " \o ToString(year)

\* format_case
FormatCase(citation, is_law_review) ==
    IF Len(citation.parties) < 2 THEN citation.raw_text
    ELSE LET case_name == AbbreviatePartyName(citation.parties[1]) \o " v. "
                            \o AbbreviatePartyName(citation.parties[2])
             reporter_cite ==
                 IF Truthy(citation.volume) /\ Truthy(citation.reporter)
                    /\ Truthy(citation.page)
                 THEN citation.volume \o " "
                        \o GetReporterAbbreviation(citation.reporter) \o " "
                        \o citation.page
                        \o (IF Truthy(citation.pincite)
                            THEN ", " \o citation.pincite ELSE "")
                 ELSE ""
             court_year == FormatCourtYear(citation.court, citation.year)
         IN  IF is_law_review /\ reporter_cite # ""
             THEN "*" \o case_name \o "*, " \o reporter_cite \o " (" \o court_year \o ")."
             ELSE IF reporter_cite # ""
             THEN case_name \o ", " \o reporter_cite \o " (" \o court_year \o ")"
             ELSE IF is_law_review THEN "*" \o case_name \o "*" ELSE case_name

\* format_statute
FormatStatute(citation, is_law_review) ==
    IF ~Truthy(citation.title_number) \/ ~Truthy(citation.section)
    THEN citation.raw_text
    ELSE LET code == IF Truthy(citation.code) THEN citation.code ELSE "U.S.C."
             base == citation.title_number \o " " \o code \o " § " \o citation.section
                       \o (IF Truthy(citation.subsection)
                           THEN "(" \o citation.subsection \o ")" ELSE "")
         IN  IF TruthyInt(citation.year)
             THEN base \o " (" \o ToString(citation.year) \o ")."
             ELSE base \o "."

\* format_regulation
FormatRegulation(citation, is_law_review) ==
    IF ~Truthy(citation.title_number) \/ ~Truthy(citation.section)
    THEN citation.raw_text
    ELSE LET base == citation.title_number \o " C.F.R. § " \o citation.section
         IN  IF TruthyInt(citation.year)
             THEN base \o " (" \o ToString(citation.year) \o ")."
             ELSE base \o "."

\* format_law_review
FormatLawReview(citation, is_law_review) ==
    LET parts ==
            (IF Truthy(citation.author) THEN <<CleanHtml(citation.author)>> ELSE <<>>)
         \o (IF Truthy(citation.title)
             THEN <<"*" \o CleanHtml(citation.title) \o "*">> ELSE <<>>)
         \o (IF Truthy(citation.volume) /\ Truthy(citation.journal)
                /\ Truthy(citation.page)
             THEN <<citation.volume \o " " \o GetJournalAbbreviation(citation.journal)
                      \o " " \o citation.page
                      \o (IF Truthy(citation.pincite)
                          THEN ", " \o citation.pincite ELSE "")>>
             ELSE <<>>)
         \o (IF TruthyInt(citation.year)
             THEN <<"(" \o ToString(citation.year) \o ")">> ELSE <<>>)
    IN  IF parts # <<>>
        THEN Join(Take(parts, 2), ", ") \o " "
               \o Join(SubSeq(parts, 3, Len(parts)), " ") \o "."
        ELSE citation.raw_text

\* format_book
FormatBook(citation, is_law_review) ==
    LET paren_parts ==
            (IF Truthy(citation.edition) THEN <<citation.edition \o " ed.">> ELSE <<>>)
         \o (IF TruthyInt(citation.year) THEN <<ToString(citation.year)>> ELSE <<>>)
        parts ==
            (IF Truthy(citation.author)
             THEN <<CleanHtml(citation.author) \o ",">> ELSE <<>>)
         \o (IF Truthy(citation.title)
             THEN <<Upper(CleanHtml(citation.title))>> ELSE <<>>)
         \o (IF paren_parts # <<>>
             THEN <<"(" \o Join(paren_parts, " ") \o ")">> ELSE <<>>)
    IN  Join(parts, " ") \o "."

\* format_website
FormatWebsite(citation, is_law_review) ==
    LET parts ==
            (IF Truthy(citation.author) THEN <<CleanHtml(citation.author)>> ELSE <<>>)
         \o (IF Truthy(citation.title)
             THEN <<"*" \o CleanHtml(citation.title) \o "*">> ELSE <<>>)
         \o (IF Truthy(citation.url) THEN <<citation.url>> ELSE <<>>)
         \o (IF Truthy(citation.access_date)
             THEN <<"(last visited " \o citation.access_date \o ")">> ELSE <<>>)
    IN  IF parts # <<>> THEN Join(parts, ", ") \o "." ELSE citation.raw_text

\* The keys of format_citation's `formatters` dict
Formatters == {"case", "statute", "regulation", "law_review", "book", "website"}

\* format_citation
FormatCitation(citation, is_law_review) ==
    CASE citation.type = "case" -> FormatCase(citation, is_law_review)
      [] citation.type = "statute" -> FormatStatute(citation, is_law_review)
      [] citation.type = "regulation" -> FormatRegulation(citation, is_law_review)
      [] citation.type = "law_review" -> FormatLawReview(citation, is_law_review)
      [] citation.type = "book" -> FormatBook(citation, is_law_review)
      [] citation.type = "website" -> FormatWebsite(citation, is_law_review)
      [] OTHER -> citation.raw_text

\* ================================================================== re
\* The regular expressions the services apply to concrete text. A pattern is
\* a sequence of items, each a character class with a repetition count; an
\* item is greedy and gives characters back when the rest cannot match, as
\* re does. Offsets count from 0, as match.start() and match.end() do.
Digits == "0123456789"
Blanks == " "
\* lookup_service.py spells the section sign of its patterns as the two
\* characters U+0E22 U+0E07 (Thai letters). A string here cannot hold them;
\* "µ" stands for the first and "¶" for the second. Both are letters to re.
ThaiYoYak == "µ"
ThaiNgoNgu == "¶"
WordChars == UpperAlpha \o LowerAlpha \o Digits \o "_" \o ThaiYoYak \o ThaiNgoNgu

\* One item: the characters it accepts, or rejects (neg), min to max times
Item(chars, neg, min, max) == [chars |-> chars, neg |-> neg, min |-> min, max |-> max]
One(chars) == Item(chars, FALSE, 1, 1)
Opt(chars) == Item(chars, FALSE, 0, 1)
Many(chars) == Item(chars, FALSE, 1, NoneInt)
AnyOf(chars) == Item(chars, FALSE, 0, NoneInt)
ManyNot(chars) == Item(chars, TRUE, 1, NoneInt)

Accepts(item, ch) == Contains(item.chars, ch) # item.neg

\* How many characters from offset p on the item can take at most
RECURSIVE Run(_, _, _, _)
Run(item, s, p, n) ==
    IF p + n < Len(s) /\ (item.max = NoneInt \/ n < item.max)
       /\ Accepts(item, Char(s, p + n + 1))
    THEN Run(item, s, p, n + 1) ELSE n

\* The offsets at which items k.. end when matched at offset p; <<>> when
\* k is past the last item; NoMatch when they cannot match there. Item k
\* takes n characters if the rest can match after them, else one fewer.
NoMatch == <<NoneInt>>
RECURSIVE Ends(_, _, _, _)
RECURSIVE Backtrack(_, _, _, _, _)
Backtrack(items, k, s, p, n) ==
    IF n < items[k].min THEN NoMatch
    ELSE LET rest == Ends(items, k + 1, s, p + n)
         IN  IF rest # NoMatch THEN <<p + n>> \o rest
             ELSE Backtrack(items, k, s, p, n - 1)
Ends(items, k, s, p) ==
    IF k > Len(items) THEN <<>>
    ELSE Backtrack(items, k, s, p, Run(items[k], s, p, 0))

\* pattern.match at offset p: [start, ends], or NoneDict for None
MatchAt(items, s, p) ==
    LET ends == Ends(items, 1, s, p)
    IN  IF ends = NoMatch THEN NoneDict ELSE [start |-> p, ends |-> ends]

\* match.end(); match.group over items i..j
MatchEnd(m) == IF m.ends = <<>> THEN m.start ELSE m.ends[Len(m.ends)]
ItemStart(m, i) == IF i = 1 THEN m.start ELSE m.ends[i - 1]
Group(m, s, i, j) == SubSeq(s, ItemStart(m, i) + 1, m.ends[j])

\* re.search: the leftmost match, or NoneDict for None
Search(items, s) ==
    LET starts == {p \in 0..Len(s) : MatchAt(items, s, p) # NoneDict}
    IN  IF starts = {} THEN NoneDict
        ELSE MatchAt(items, s, CHOOSE p \in starts : \A q \in starts : p <= q)

\* \b at offset p
WordBoundary(s, p) ==
    LET before == p > 0 /\ Contains(WordChars, Char(s, p))
        after == p < Len(s) /\ Contains(WordChars, Char(s, p + 1))
    IN  before # after

\* int(s) of a string of digits
DigitValue(ch) == (CHOOSE i \in 1..10 : Char(Digits, i) = ch) - 1
RECURSIVE ParseInt(_)
ParseInt(s) == IF s = "" THEN 0
          ELSE 10 * ParseInt(SubSeq(s, 1, Len(s) - 1)) + DigitValue(Char(s, Len(s)))
IsDigits(s) == s # "" /\ \A i \in 1..Len(s) : Contains(Digits, Char(s, i))

\* ====================================================== LegalLookupService
\* lookup_service.py. The remote services are the environment: each answers
\* a request with a result ("hit"), with nothing usable ("miss": an empty
\* result list, or a status other than 200) or not at all ("error": the
\* request raises). During one call of complete_citation a service answers
\* every request the same way.
Services == {"CourtListener", "CrossRef", "eCFR", "Open Library", "URL Metadata"}
Outcomes == {"hit", "miss", "error"}
Networks == [Services -> Outcomes]

\* data.get(key)
Get(data, key) == IF key \in DOMAIN data THEN data[key] ELSE None

\* The `results` dicts
NotFound(source) ==
    [found |-> FALSE, data |-> NoneDict, suggestions |-> <<>>, source |-> source,
     inferred_type |-> None, error |-> None]
Failed(source) == [NotFound(source) EXCEPT !.error = "request failed"]
Found(source, data) ==
    [NotFound(source) EXCEPT !.found = TRUE, !.data = data, !.suggestions = <<data>>]
FoundData(source, data) == [NotFound(source) EXCEPT !.found = TRUE, !.data = data]

\* What the services hold, for the requests that hit
CourtListenerResult ==
    [case_name |-> "Roe v. Wade", citation |-> <<"410 U.S. 113">>,
     court |-> "Supreme Court of the United States", date_filed |-> "1973-01-22"]
CrossRefResult ==
    [title |-> "On Analogical Reasoning", author |-> "Cass R. Sunstein",
     container_title |-> "Harvard Law Review", volume |-> "106",
     page |-> "741-791", year |-> 1993]
OpenLibraryResult ==
    [title |-> "The Legal Process", author |-> "Henry M. Hart",
     publisher |-> "Foundation Press", year |-> 1994]
EcfrResult == [identifier |-> "314.50", label |-> "Content and format of an NDA"]
PageMetadata(url) ==
    [title |-> "Roe v. Wade", author |-> None, publication_date |-> None,
     site_name |-> "Oyez", url |-> url]

\* One remote request and the handling every lookup wraps around it:
\* try / 200 with results / except Exception
Remote(net, source, data) ==
    CASE net[source] = "hit" -> Found(source, data)
      [] net[source] = "miss" -> NotFound(source)
      [] net[source] = "error" -> Failed(source)

\* _lookup_case
LookupCase(citation, net) ==
    IF \/ Truthy(citation.volume) /\ Truthy(citation.reporter) /\ Truthy(citation.page)
       \/ Len(citation.parties) >= 2
    THEN Remote(net, "CourtListener", CourtListenerResult)
    ELSE NotFound("CourtListener")

\* _lookup_statute
LookupStatute(citation, net) ==
    IF Truthy(citation.title_number) /\ Truthy(citation.section)
    THEN FoundData("Cornell Law",
            [title |-> citation.title_number, section |-> citation.section,
             code |-> IF Truthy(citation.code) THEN citation.code ELSE "U.S.C.",
             url |-> "https://www.law.cornell.edu/uscode/text/"
                       \o citation.title_number \o "/" \o citation.section])
    ELSE NotFound("Cornell Law")

\* The links _lookup_regulation falls back to
RegulationLinks(citation) ==
    [title |-> citation.title_number, section |-> citation.section,
     ecfr_url |-> "https://www.ecfr.gov/current/title-" \o citation.title_number
                    \o "/section-" \o citation.section,
     cornell_url |-> "https://www.law.cornell.edu/cfr/text/" \o citation.title_number
                       \o "/" \o citation.section]

\* _lookup_regulation: a status other than 200 and an exception both answer
\* found, with the links
LookupRegulation(citation, net) ==
    IF Truthy(citation.title_number) /\ Truthy(citation.section)
    THEN IF net["eCFR"] = "hit"
         THEN FoundData("eCFR", EcfrResult)
         ELSE FoundData("eCFR", RegulationLinks(citation))
    ELSE NotFound("eCFR")

\* _lookup_article
LookupArticle(citation, net) ==
    IF Truthy(citation.author) \/ Truthy(citation.title)
    THEN Remote(net, "CrossRef", CrossRefResult)
    ELSE NotFound("CrossRef")

\* _lookup_book
LookupBook(citation, net) ==
    IF Truthy(citation.author) \/ Truthy(citation.title)
    THEN Remote(net, "Open Library", OpenLibraryResult)
    ELSE NotFound("Open Library")

\* _no_lookup
NoLookup(citation, net) == NotFound(None)

\* lookup_citation
LookupCitation(citation, net) ==
    CASE citation.type = "case" -> LookupCase(citation, net)
      [] citation.type = "statute" -> LookupStatute(citation, net)
      [] citation.type = "regulation" -> LookupRegulation(citation, net)
      [] citation.type = "law_review" -> LookupArticle(citation, net)
      [] citation.type = "book" -> LookupBook(citation, net)
      [] OTHER -> NoLookup(citation, net)

\* lookup_website: found only on a 200
LookupWebsite(citation, net) ==
    IF ~Truthy(citation.url) THEN NotFound("URL Metadata")
    ELSE IF net["URL Metadata"] = "hit"
         THEN FoundData("URL Metadata", PageMetadata(citation.url))
         ELSE IF net["URL Metadata"] = "miss" THEN NotFound("URL Metadata")
         ELSE Failed("URL Metadata")

\* _search_case_by_text, _search_article_by_text
SearchCaseByText(search_text, net) == Remote(net, "CourtListener", CourtListenerResult)
SearchArticleByText(search_text, net) == Remote(net, "CrossRef", CrossRefResult)

\* The two patterns of _parse_statute_from_text, under re.IGNORECASE:
\* (\d+)\s*U\.?S\.?C\.?\s*<U+0E22><U+0E07>?\s*(\d+[a-z]?) and
\* (\d+)\s*C\.?F\.?R\.?\s*<U+0E22><U+0E07>?\s*(\d+(?:\.\d+)?)
UscInText ==
    <<Many(Digits), AnyOf(Blanks), One("Uu"), Opt("."), One("Ss"), Opt("."),
      One("Cc"), Opt("."), AnyOf(Blanks), One(ThaiYoYak), Opt(ThaiNgoNgu),
      AnyOf(Blanks), Many(Digits), Opt(UpperAlpha \o LowerAlpha)>>
CfrInText ==
    <<Many(Digits), AnyOf(Blanks), One("Cc"), Opt("."), One("Ff"), Opt("."),
      One("Rr"), Opt("."), AnyOf(Blanks), One(ThaiYoYak), Opt(ThaiNgoNgu),
      AnyOf(Blanks), Many(Digits)>>
CfrDecimals == <<One("."), Many(Digits)>>

\* _parse_statute_from_text
ParseStatuteFromText(search_text) ==
    LET usc_match == Search(UscInText, search_text)
        cfr_match == Search(CfrInText, search_text)
        decimals == MatchAt(CfrDecimals, search_text, MatchEnd(cfr_match))
    IN  IF usc_match # NoneDict
        THEN LET title == Group(usc_match, search_text, 1, 1)
                 section == Group(usc_match, search_text, 13, 14)
             IN  FoundData("Cornell Law",
                    [title |-> title, section |-> section, code |-> "U.S.C.",
                     url |-> "https://www.law.cornell.edu/uscode/text/"
                               \o title \o "/" \o section])
        ELSE IF cfr_match # NoneDict
        THEN LET title == Group(cfr_match, search_text, 1, 1)
                 section == Group(cfr_match, search_text, 13, 13)
                              \o (IF decimals = NoneDict THEN ""
                                  ELSE Group(decimals, search_text, 1, 2))
             IN  FoundData("eCFR",
                    [title |-> title, section |-> section, code |-> "C.F.R.",
                     url |-> "https://www.ecfr.gov/current/title-" \o title
                               \o "/section-" \o section])
        ELSE NotFound("Cornell Law")

\* search_by_text
SearchByText(search_text, search_type, net) ==
    IF ~Truthy(search_text) \/ Len(Strip(search_text, Blanks)) < 3
    THEN NotFound(None)
    ELSE CASE search_type = "case" -> SearchCaseByText(Strip(search_text, Blanks), net)
           [] search_type = "article" ->
                SearchArticleByText(Strip(search_text, Blanks), net)
           [] search_type = "statute" ->
                ParseStatuteFromText(Strip(search_text, Blanks))
           [] OTHER -> NotFound(None)

\* re.search(r'\b(U\.?S\.?C|C\.?F\.?R|Code|<U+0E22><U+0E07>)', raw_text,
\* re.IGNORECASE) in smart_complete
StatuteWords ==
    {<<One("Uu"), Opt("."), One("Ss"), Opt("."), One("Cc")>>,
     <<One("Cc"), Opt("."), One("Ff"), Opt("."), One("Rr")>>,
     <<One("Cc"), One("Oo"), One("Dd"), One("Ee")>>,
     <<One(ThaiYoYak), One(ThaiNgoNgu)>>}
LooksLikeStatute(raw_text) ==
    \E p \in 0..Len(raw_text), items \in StatuteWords :
        WordBoundary(raw_text, p) /\ MatchAt(items, raw_text, p) # NoneDict

\* smart_complete, strategy 3: the result chosen among the three searches
\* of the stripped raw text
InferFromSearches(raw_text, case_result, statute_result, article_result) ==
    IF (Contains(raw_text, " v. ") \/ Contains(raw_text, " v "))
       /\ case_result.found
    THEN [case_result EXCEPT !.inferred_type = "case"]
    ELSE IF LooksLikeStatute(raw_text) /\ statute_result.found
    THEN [statute_result EXCEPT !.inferred_type = "statute"]
    ELSE IF article_result.found
    THEN [article_result EXCEPT !.inferred_type = "law_review"]
    ELSE IF case_result.found THEN case_result
    ELSE NotFound(None)

\* smart_complete, strategy 3: search by raw_text = citation.raw_text.strip()
SearchStripped(raw_text, net) ==
    InferFromSearches(raw_text, SearchByText(raw_text, "case", net),
                      SearchByText(raw_text, "statute", net),
                      SearchByText(raw_text, "article", net))
SearchRawText(citation, net) == SearchStripped(Strip(citation.raw_text, Blanks), net)

\* smart_complete, given what strategies 1 and 2 answer
FirstFound(citation, net, typed_result, website_result) ==
    IF citation.type # "other" /\ typed_result.found THEN typed_result
    ELSE IF Truthy(citation.url) /\ website_result.found THEN website_result
    ELSE IF Truthy(citation.raw_text) THEN SearchRawText(citation, net)
    ELSE NotFound(None)

\* smart_complete
SmartComplete(citation, net) ==
    FirstFound(citation, net, LookupCitation(citation, net),
               LookupWebsite(citation, net))

\* ======================================================= CitationCompleter
\* s.split(sep) for a non-empty sep
RECURSIVE SplitOn(_, _, _)
SplitOn(s, sep, cur) ==
    IF s = "" THEN <<cur>>
    ELSE IF StartsWith(s, sep)
         THEN <<cur>> \o SplitOn(SubSeq(s, Len(sep) + 1, Len(s)), sep, "")
         ELSE SplitOn(SubSeq(s, 2, Len(s)), sep, cur \o Char(s, 1))

\* re.match(r"(\d+)\s+([A-Za-z.\s]+)\s+(\d+)", cite)
CiteString ==
    <<Many(Digits), Many(Blanks), Many(UpperAlpha \o LowerAlpha \o "." \o Blanks),
      Many(Blanks), Many(Digits)>>

\* _merge_lookup_data, the case branch
MergeCase(citation, data) ==
    LET parts == IF Truthy(Get(data, "case_name"))
                 THEN SplitOn(data.case_name, " v. ", "") ELSE <<>>
        cites == IF "citation" \in DOMAIN data THEN data.citation ELSE <<>>
        parsed == {i \in 1..Len(cites) : MatchAt(CiteString, cites[i], 0) # NoneDict}
        cite == cites[CHOOSE i \in parsed : \A j \in parsed : i <= j]
        match == MatchAt(CiteString, cite, 0)
        date_filed == Get(data, "date_filed")
    IN  [citation EXCEPT
            !.parties = IF citation.parties = <<>> /\ Len(parts) = 2
                        THEN <<Strip(parts[1], Blanks), Strip(parts[2], Blanks)>>
                        ELSE @,
            !.volume = IF parsed # {} /\ ~Truthy(@) THEN Group(match, cite, 1, 1) ELSE @,
            !.reporter = IF parsed # {} /\ ~Truthy(@)
                         THEN Strip(Group(match, cite, 3, 3), Blanks) ELSE @,
            !.page = IF parsed # {} /\ ~Truthy(@) THEN Group(match, cite, 5, 5) ELSE @,
            !.year = IF ~TruthyInt(@) /\ Truthy(date_filed)
                        /\ IsDigits(SubSeq(date_filed, 1, 4))
                     THEN ParseInt(SubSeq(date_filed, 1, 4)) ELSE @,
            !.court = IF ~Truthy(@) /\ Truthy(Get(data, "court")) THEN data.court ELSE @]

\* data.get("year") of a result whose year is an int
GetInt(data, key) == IF key \in DOMAIN data THEN data[key] ELSE NoneInt

\* _merge_lookup_data
MergeLookupData(citation, data) ==
    CASE citation.type = "case" -> MergeCase(citation, data)
      [] citation.type = "law_review" ->
            [citation EXCEPT
                !.author = IF ~Truthy(@) /\ Truthy(Get(data, "author"))
                           THEN data.author ELSE @,
                !.title = IF ~Truthy(@) /\ Truthy(Get(data, "title"))
                          THEN data.title ELSE @,
                !.journal = IF ~Truthy(@) /\ Truthy(Get(data, "container_title"))
                            THEN data.container_title ELSE @,
                !.volume = IF ~Truthy(@) /\ Truthy(Get(data, "volume"))
                           THEN data.volume ELSE @,
                !.page = IF ~Truthy(@) /\ Truthy(Get(data, "page"))
                         THEN SplitOn(data.page, "-", "")[1] ELSE @,
                !.year = IF ~TruthyInt(@) /\ TruthyInt(GetInt(data, "year"))
                         THEN data.year ELSE @]
      [] citation.type = "book" ->
            [citation EXCEPT
                !.author = IF ~Truthy(@) /\ Truthy(Get(data, "author"))
                           THEN data.author ELSE @,
                !.title = IF ~Truthy(@) /\ Truthy(Get(data, "title"))
                          THEN data.title ELSE @,
                !.publisher = IF ~Truthy(@) /\ Truthy(Get(data, "publisher"))
                              THEN data.publisher ELSE @,
                !.year = IF ~TruthyInt(@) /\ TruthyInt(GetInt(data, "year"))
                         THEN data.year ELSE @]
      [] citation.type = "website" ->
            [citation EXCEPT
                !.author = IF ~Truthy(@) /\ Truthy(Get(data, "author"))
                           THEN data.author ELSE @,
                !.title = IF ~Truthy(@) /\ Truthy(Get(data, "title"))
                          THEN data.title ELSE @,
                !.url = IF ~Truthy(@) /\ Truthy(Get(data, "url")) THEN data.url ELSE @,
                !.access_date = IF ~Truthy(@) /\ Truthy(Get(data, "publication_date"))
                                THEN data.publication_date ELSE @]
      [] OTHER -> citation

\* required_fields of _calculate_confidence
RequiredFields ==
    [t \in {"case", "law_review", "statute", "regulation", "book"} |->
        CASE t = "case" -> <<"parties", "volume", "reporter", "page", "year">>
          [] t = "law_review" -> <<"author", "title", "volume", "journal", "page", "year">>
          [] t = "statute" -> <<"title_number", "code", "section">>
          [] t = "regulation" -> <<"title_number", "section">>
          [] t = "book" -> <<"author", "title", "year">>]

\* bool(getattr(citation, f, None))
Filled(citation, f) ==
    CASE f = "parties" -> citation.parties # <<>>
      [] f = "year" -> TruthyInt(citation.year)
      [] OTHER -> Truthy(citation[f])

\* _calculate_confidence, in hundredths: a score is compared with 0.8 only,
\* and no quotient of these field counts lies between 0.65 and 0.66
CalculateConfidence(citation, results) ==
    IF citation.type \notin DOMAIN RequiredFields THEN 50
    ELSE LET fields == RequiredFields[citation.type]
             filled == Cardinality({i \in 1..Len(fields) : Filled(citation, fields[i])})
             score == (100 * filled) \div Len(fields)
         IN  IF results.found
             THEN IF score + 15 > 100 THEN 100 ELSE score + 15
             ELSE score

\* complete_citation: the inferred type adopted before the merge
Typed(citation, inferred_type) ==
    IF Truthy(inferred_type) THEN [citation EXCEPT !.type = inferred_type]
    ELSE citation

\* complete_citation: lookup_results, confidence_score and status set
Scored(merged, results, score) ==
    [merged EXCEPT
        !.lookup_results = results,
        !.confidence_score = score,
        !.status = IF score > 80 THEN "complete" ELSE "needs_verification"]

\* complete_citation, from `if results["found"] and results["data"]` on
ApplyResults(citation, results, merged) ==
    IF results.found /\ results.data # NoneDict
    THEN Scored(merged, results, CalculateConfidence(merged, results))
    ELSE citation

\* complete_citation: the standard lookup when the smart one found nothing
OrStandardLookup(citation, net, smart) ==
    IF ~smart.found THEN LookupCitation(citation, net) ELSE smart

\* complete_citation, with `results` in hand
CompleteWith(citation, results) ==
    ApplyResults(citation, results,
                 MergeLookupData(Typed(citation, results.inferred_type), results.data))

\* complete_citation with the services answering as `net` says
CompleteCitation(citation, net) ==
    IF citation.status = "complete" THEN citation
    ELSE CompleteWith(citation,
                      OrStandardLookup(citation, net, SmartComplete(citation, net)))

\* ------------------------------------------- one call of a service method
\* complete_citation and format_citation take any Citation. The requests are
\* sample citations of every kind, with key fields set and unset, under
\* each status a caller can pass.
RoeNameOnly ==
    [BlankCitation EXCEPT !.type = "case", !.raw_text = "Roe v. Wade",
        !.parties = <<"Roe", "Wade">>]
CalPenalCode ==
    [BlankCitation EXCEPT !.type = "statute", !.raw_text = "Cal. Penal Code § 187",
        !.code = "Cal. Penal Code", !.section = "187"]
Cfr314 ==
    [BlankCitation EXCEPT !.type = "regulation", !.raw_text = "21 C.F.R. § 314.50",
        !.title_number = "21", !.section = "314.50"]
BlankRegulation ==
    [BlankCitation EXCEPT !.type = "regulation", !.raw_text = "FDA regulations"]
TaggedArticle ==
    [BlankCitation EXCEPT !.type = "law_review",
        !.raw_text = "Sunstein, <i>On Analogical Reasoning</i>",
        !.author = "Cass R. Sunstein &amp; others",
        !.title = "<i>On Analogical Reasoning</i> ", !.year = 1993]
BlankBook ==
    [BlankCitation EXCEPT !.type = "book", !.raw_text = "the leading treatise"]
YearOnlyBook ==
    [BlankCitation EXCEPT !.type = "book", !.raw_text = "the 1994 treatise",
        !.edition = "2d", !.year = 1994]
Oyez ==
    [BlankCitation EXCEPT !.type = "website",
        !.raw_text = "https://www.oyez.org/cases/1971/70-18",
        !.url = "https://www.oyez.org/cases/1971/70-18"]
BlankWebsite ==
    [BlankCitation EXCEPT !.type = "website", !.raw_text = "the court's website"]
Treaty ==
    [BlankCitation EXCEPT !.type = "treaty",
        !.raw_text = "Treaty of Versailles", !.title = "Treaty of Versailles"]
PastedText ==
    [BlankCitation EXCEPT !.type = "other", !.raw_text = "Marbury v Madison"]

CallSamples ==
    {Roe, RoeNameOnly, BlankCase, Usc1983, CalPenalCode, BlankStatute, Cfr314,
     BlankRegulation, Sunstein, TaggedArticle, BlankArticle, HartSacks, BlankBook,
     YearOnlyBook, Website, Oyez, BlankWebsite, Treaty, PastedText}
CallStatuses == {"complete", "incomplete", "needs_verification"}
CallPool == {[sample EXCEPT !.status = status] :
                sample \in CallSamples, status \in CallStatuses}

\* await completer.complete_citation(request), the services answering as net
CallCompleteCitation(net) ==
    /\ request # NoneDict
    /\ response = NoneDict
    /\ response' = [method |-> "complete_citation", network |-> net,
                    returned |-> CompleteCitation(request, net)]
    /\ UNCHANGED <<request, text, completed_citations>>
    /\ UNCHANGED <<resolverVars, extractVars>>

\* formatter.format_citation(request)
CallFormatCitation ==
    /\ request # NoneDict
    /\ response = NoneDict
    /\ response' = [method |-> "format_citation",
                    returned |-> FormatCitation(request, TRUE)]
    /\ UNCHANGED <<request, text, completed_citations>>
    /\ UNCHANGED <<resolverVars, extractVars>>

InitCalls ==
    /\ request \in CallPool
    /\ response = NoneDict
    /\ EndpointIdle
    /\ ResolverIdle
    /\ ExtractIdle

NextCalls ==
    \/ \E net \in Networks : CallCompleteCitation(net)
    \/ CallFormatCitation

SpecCalls == InitCalls /\ [][NextCalls]_vars

\* ------------------------------------------- extract_all on statute texts
\* Texts that cite one federal statute: a title, the code, one or two
\* section signs, a section with or without a subsection, and a year
\* parenthetical or none.
StatuteTextParts ==
    [lead |-> {"", "See "}, title |-> {"42", "18"}, code |-> {"U.S.C.", "USC"},
     sign |-> {"§", "§§"}, section |-> {"1983", "1983a", "1983(a)"},
     year |-> {"", " (2000)", " (2018)"}]
\* A literal that each other pattern of PATTERNS needs in order to match:
\* the case patterns "v.", statute_state "Code" or "Stat", regulation_cfr
\* "F", law_review and book ",", id_citation "Id.", supra_citation "supra",
\* url "http"
OtherPatternLiterals == {"v.", "Code", "Stat", "F", ",", "Id.", "supra", "http"}
\* The texts, none of which another pattern can match
StatuteTexts ==
    {t \in {lead \o title \o " " \o code \o " " \o sign \o " " \o section \o year \o "." :
               lead \in StatuteTextParts.lead, title \in StatuteTextParts.title,
               code \in StatuteTextParts.code, sign \in StatuteTextParts.sign,
               section \in StatuteTextParts.section, year \in StatuteTextParts.year} :
        \A literal \in OtherPatternLiterals : ~Contains(t, literal)}

\* PATTERNS["statute_usc"]:
\* (\d+)\s+U\.?S\.?C\.?\s*§+\s*(\d+[a-z]?)(?:\(([^)]+)\))?
StatuteUsc ==
    <<Many(Digits), Many(Blanks), One("U"), Opt("."), One("S"), Opt("."), One("C"),
      Opt("."), AnyOf(Blanks), Many("§"), AnyOf(Blanks), Many(Digits), Opt(LowerAlpha)>>
StatuteUscSubsection == <<One("("), ManyNot(")"), One(")")>>

\* PATTERNS["statute_usc"].finditer(text) from offset p on: per match its
\* span and groups 1 to 3
RECURSIVE FinditerStatuteUsc(_, _)
FinditerStatuteUsc(s, p) ==
    IF p > Len(s) THEN <<>>
    ELSE LET match == MatchAt(StatuteUsc, s, p)
             sub == MatchAt(StatuteUscSubsection, s, MatchEnd(match))
             end == IF sub = NoneDict THEN MatchEnd(match) ELSE MatchEnd(sub)
         IN  IF match = NoneDict THEN FinditerStatuteUsc(s, p + 1)
             ELSE <<[start |-> p, end |-> end,
                     group0 |-> SubSeq(s, p + 1, end),
                     group1 |-> Group(match, s, 1, 1),
                     group2 |-> Group(match, s, 12, 13),
                     group3 |-> IF sub = NoneDict THEN None ELSE Group(sub, s, 2, 2)]>>
                  \o FinditerStatuteUsc(s, end)

\* PATTERNS["footnote_marker"]: (?:^|\s)(\d{1,3})(?=\s+[A-Z]|\s*$)
\* The lookahead at offset q
MarkerLookahead(s, q) ==
    LET blanks == Run(AnyOf(Blanks), s, q, 0)
    IN  \/ blanks >= 1 /\ q + blanks < Len(s)
           /\ Contains(UpperAlpha, Char(s, q + blanks + 1))
        \/ q + blanks = Len(s)
\* The digits of a marker that starts at offset d: as many of up to three as
\* the lookahead allows; 0 when none does
MarkerDigits(s, d) ==
    LET most == Run(Item(Digits, FALSE, 1, 3), s, d, 0)
        feasible == {n \in 1..most : MarkerLookahead(s, d + n)}
    IN  IF feasible = {} THEN 0 ELSE CHOOSE n \in feasible : \A m \in feasible : m <= n
\* Where the digits of a match at offset p start: at p when p is the start
\* of the text and a marker is there, else after the blank at p
MarkerDigitsStart(s, p) ==
    IF p = 0 /\ MarkerDigits(s, 0) > 0 THEN 0
    ELSE IF p < Len(s) /\ Contains(Blanks, Char(s, p + 1)) /\ MarkerDigits(s, p + 1) > 0
    THEN p + 1
    ELSE NoneInt
\* footnote_positions: (int(match.group(1)), match.start()) of every match
RECURSIVE FootnotePositions(_, _)
FootnotePositions(s, p) ==
    IF p > Len(s) THEN <<>>
    ELSE LET d == MarkerDigitsStart(s, p)
             end == d + MarkerDigits(s, d)
         IN  IF d = NoneInt THEN FootnotePositions(s, p + 1)
             ELSE <<[number |-> ParseInt(SubSeq(s, d + 1, end)), position |-> p]>>
                  \o FootnotePositions(s, end)

\* _extract_statutes, the U.S.C. loop, on empty `spans`: finditer's matches
\* do not overlap one another, so none is skipped
StatuteCitation(match) ==
    [BlankCitation EXCEPT
        !.type = "statute", !.status = "complete", !.raw_text = match.group0,
        !.position_start = match.start, !.position_end = match.end,
        !.title_number = match.group1, !.code = "U.S.C.", !.section = match.group2,
        !.subsection = match.group3]

\* extract_all(text) in one step, for a text of StatuteTexts: the statute
\* loop is the only one with matches; then the sort and _assign_footnotes
ExtractAll ==
    /\ xpc = "extract"
    /\ text \in StatuteTexts
    /\ LET matches == FinditerStatuteUsc(text, 0)
           found == [i \in 1..Len(matches) |-> StatuteCitation(matches[i])]
           footnote_positions == FootnotePositions(text, 0)
       IN  /\ matched_spans' = [i \in 1..Len(matches) |->
                                   <<matches[i].start, matches[i].end>>]
           /\ markers' = footnote_positions
           /\ extracted' = [i \in 1..Len(found) |->
                               AssignFootnote(SortByStart(found)[i], footnote_positions)]
    /\ xpc' = "done"
    /\ UNCHANGED <<family, scan, candidates, text, completed_citations>>
    /\ UNCHANGED <<resolverVars, callVars>>

InitTexts ==
    /\ ExtractInit
    /\ text \in StatuteTexts
    /\ completed_citations = <<>>
    /\ ResolverIdle
    /\ CallIdle

NextTexts == ExtractAll

SpecTexts == InitTexts /\ [][NextTexts]_vars

\* ------------------------------------- extract_all on state statute texts
\* Texts citing two state statutes: PATTERNS["statute_usc"] has no match in
\* them, and no pattern other than statute_state and footnote_marker can
\* match them (each needs a literal they lack).
StateStatuteTextParts ==
    [lead |-> {"", "1 "},
     code |-> {"Fla. Stat.", "Ohio Rev. Code", "Cal. Penal Code"},
     section |-> {"187", "187.01"},
     between |-> {"; ", ". 2 "}]
StateStatuteTexts ==
    {lead \o code1 \o " § " \o section1 \o between \o code2 \o " § " \o section2 \o "." :
        lead \in StateStatuteTextParts.lead,
        code1 \in StateStatuteTextParts.code, code2 \in StateStatuteTextParts.code,
        section1 \in StateStatuteTextParts.section,
        section2 \in StateStatuteTextParts.section,
        between \in StateStatuteTextParts.between}

\* PATTERNS["statute_state"]:
\* ([A-Z][a-z]+\.?\s+(?:Rev\.?\s+)?(?:Code|Stat)\.?\s*(?:Ann\.?)?\s*)§+\s*(\d+(?:[-.]\d+)*)
\* as the sequences its optional groups and its alternation stand for, in
\* the order re tries them. At one offset at most one of them can match:
\* what follows the first word is "Rev" or not, "Code" or "Stat", and what
\* precedes the section sign is "Ann" or not.
StatuteStateWord == <<One(UpperAlpha), Many(LowerAlpha), Opt("."), Many(Blanks)>>
StatuteStateRev == <<One("R"), One("e"), One("v"), Opt("."), Many(Blanks)>>
StatuteStateKinds ==
    <<<<One("C"), One("o"), One("d"), One("e")>>,
      <<One("S"), One("t"), One("a"), One("t")>>>>
StatuteStateAnn == <<One("A"), One("n"), One("n"), Opt(".")>>
StatuteStateSign == <<Many("§"), AnyOf(Blanks), Many(Digits)>>
StatuteState ==
    LET name(rev, kind, ann) ==
            StatuteStateWord \o (IF rev THEN StatuteStateRev ELSE <<>>)
                \o StatuteStateKinds[kind] \o <<Opt("."), AnyOf(Blanks)>>
                \o (IF ann THEN StatuteStateAnn ELSE <<>>) \o <<AnyOf(Blanks)>>
    IN  <<name(TRUE, 1, TRUE), name(TRUE, 1, FALSE), name(TRUE, 2, TRUE),
          name(TRUE, 2, FALSE), name(FALSE, 1, TRUE), name(FALSE, 1, FALSE),
          name(FALSE, 2, TRUE), name(FALSE, 2, FALSE)>>

\* (?:[-.]\d+)* from offset q on: where it ends
RECURSIVE SectionParts(_, _)
SectionParts(s, q) ==
    IF q < Len(s) /\ Contains("-.", Char(s, q + 1))
       /\ Run(Many(Digits), s, q + 1, 0) > 0
    THEN SectionParts(s, q + 1 + Run(Many(Digits), s, q + 1, 0))
    ELSE q

\* One match of PATTERNS["statute_state"]: m is the match of a sequence
\* whose first n items are group 1; group 2 starts at the last item and
\* runs on over (?:[-.]\d+)*
StateStatuteMatch(s, p, n, m) ==
    [start |-> p, end |-> SectionParts(s, MatchEnd(m)),
     group0 |-> SubSeq(s, p + 1, SectionParts(s, MatchEnd(m))),
     group1 |-> Group(m, s, 1, n),
     group2 |-> SubSeq(s, ItemStart(m, n + 3) + 1, SectionParts(s, MatchEnd(m)))]

\* spans.append((match.start(), match.end())) for every match
SpansOf(matches) == [i \in 1..Len(matches) |-> <<matches[i].start, matches[i].end>>]

\* PATTERNS["statute_state"].match at offset p, trying sequence v and those
\* after it: the span and groups 1 and 2, or NoneDict
RECURSIVE MatchStatuteState(_, _, _)
MatchStatuteState(s, p, v) ==
    IF v > Len(StatuteState) THEN NoneDict
    ELSE IF MatchAt(StatuteState[v] \o StatuteStateSign, s, p) = NoneDict
    THEN MatchStatuteState(s, p, v + 1)
    ELSE StateStatuteMatch(s, p, Len(StatuteState[v]),
                           MatchAt(StatuteState[v] \o StatuteStateSign, s, p))

\* PATTERNS["statute_state"].finditer(text) from offset p on
RECURSIVE FinditerStatuteState(_, _)
FinditerStatuteState(s, p) ==
    IF p > Len(s) THEN <<>>
    ELSE IF MatchStatuteState(s, p, 1) = NoneDict THEN FinditerStatuteState(s, p + 1)
    ELSE <<MatchStatuteState(s, p, 1)>>
            \o FinditerStatuteState(s, MatchStatuteState(s, p, 1).end)

\* _extract_statutes, the state loop, on `spans` that no match overlaps
StateStatuteCitation(match) ==
    [BlankCitation EXCEPT
        !.type = "statute", !.status = "needs_verification",
        !.raw_text = match.group0,
        !.position_start = match.start, !.position_end = match.end,
        !.code = Strip(match.group1, Blanks), !.section = match.group2]

\* The citations extract_all returns for a text of StateStatuteTexts
StateStatutesOf(matches, footnote_positions) ==
    [i \in 1..Len(matches) |->
        AssignFootnote(SortByStart([j \in 1..Len(matches) |->
                                       StateStatuteCitation(matches[j])])[i],
                       footnote_positions)]

\* extract_all(text) in one step, for a text of StateStatuteTexts: the state
\* loop of _extract_statutes is the only one with matches; then the sort
\* and _assign_footnotes
ExtractStateStatutes ==
    /\ xpc = "extract"
    /\ text \in StateStatuteTexts
    /\ matched_spans' = SpansOf(FinditerStatuteState(text, 0))
    /\ markers' = FootnotePositions(text, 0)
    /\ extracted' = StateStatutesOf(FinditerStatuteState(text, 0),
                                    FootnotePositions(text, 0))
    /\ xpc' = "done"
    /\ UNCHANGED <<family, scan, candidates, text, completed_citations>>
    /\ UNCHANGED <<resolverVars, callVars>>

\* analyze_citation_sequence is called with the citations extracted
StartResolving ==
    /\ pc = "idle"
    /\ xpc = "done"
    /\ pc' = "loop"
    /\ UNCHANGED <<citations, suggestions, seen, footnote_history, last_cite_key,
                   last_fn, footnote_position, self, fresh>>
    /\ UNCHANGED <<extractVars, endpointVars, callVars>>

\* ... reads the next of them
ResolveNext ==
    /\ Len(citations) < Len(extracted)
    /\ Iterate(extracted[Len(citations) + 1],
               extracted[Len(citations) + 1].footnote_number)

\* ... and returns when it has read them all
FinishResolving ==
    /\ Len(citations) = Len(extracted)
    /\ Return

InitStateStatutes ==
    /\ ExtractInit
    /\ text \in StateStatuteTexts
    /\ completed_citations = <<>>
    /\ ResolverIdle
    /\ CallIdle

NextStateStatutes ==
    \/ ExtractStateStatutes
    \/ StartResolving
    \/ ResolveNext
    \/ FinishResolving

SpecStateStatutes == InitStateStatutes /\ [][NextStateStatutes]_vars

\* ========================================================= ShortFormManager
\* bluebook_rules.py:197-355. `self` holds the manager's fields, `citations`
\* the calls of register_citation made so far (citation and footnote_num),
\* `request` the last call of either method and `response` what it returned.

\* ShortFormManager.__init__
InitialManager ==
    [citation_contexts |-> EmptyMap,
     footnote_history |-> <<>>,
     current_footnote |-> 0]

\* Citations handed to the manager; Citation.id is a fresh uuid4 per object.
ManagerPool ==
    {[Roe EXCEPT !.id = "roe"], [Sunstein EXCEPT !.id = "sunstein"],
     [BlankAuthorBook EXCEPT !.id = "book"]}
\* footnote_num, current_footnote: int
ManagerFootnotes == 0..MaxFn
\* pincite: Optional[str]
ManagerPincites == {None, "120"}

\* register_citation, lines 215-220: the context it stores
RegisteredContext(citation, footnote_num) ==
    [citation_id |-> citation.id,
     first_occurrence_footnote |-> footnote_num,
     full_citation |-> IF Truthy(citation.suggested_correction)
                       THEN citation.suggested_correction ELSE citation.raw_text,
     short_forms_used |-> <<>>,
     hereinafter_name |-> None,
     last_used_footnote |-> footnote_num,
     times_cited |-> 1]

\* register_citation, lines 225-226: while len(history) < footnote_num: append([])
Padded(history, footnote_num) ==
    [i \in 1..(IF Len(history) < footnote_num THEN footnote_num ELSE Len(history)) |->
        IF i <= Len(history) THEN history[i] ELSE <<>>]

\* register_citation: the manager's fields after the call
Registered(manager, citation, footnote_num) ==
    [manager EXCEPT
        !.citation_contexts =
            [k \in DOMAIN manager.citation_contexts \cup {citation.id} |->
                IF k = citation.id THEN RegisteredContext(citation, footnote_num)
                ELSE manager.citation_contexts[k]],
        !.footnote_history =
            IF footnote_num > 0
            THEN [Padded(manager.footnote_history, footnote_num) EXCEPT
                     ![footnote_num] = Append(@, citation.id)]
            ELSE Padded(manager.footnote_history, footnote_num)]

\* can_use_id
ManagerCanUseId(history, citation_id, current_footnote, is_first_in_footnote) ==
    IF current_footnote <= 0 THEN FALSE
    ELSE IF ~is_first_in_footnote
    THEN /\ current_footnote <= Len(history)
         /\ history[current_footnote] # <<>>
         /\ history[current_footnote][Len(history[current_footnote])] = citation_id
    ELSE IF current_footnote <= 1 THEN FALSE
    ELSE IF current_footnote - 2 >= Len(history) THEN FALSE
    ELSE IF Len(history[current_footnote - 1]) # 1 THEN FALSE
    ELSE history[current_footnote - 1][1] = citation_id

ManagerNonDistinctive ==
    {"United States", "State", "People", "Commonwealth", "City", "County"}

\* ShortFormManager._format_short_case
ManagerFormatShortCase(citation, context, pincite) ==
    IF citation.parties = <<>>
    THEN "supra note " \o ToString(context.first_occurrence_footnote)
    ELSE
    LET first == citation.parties[1]
        chosen == IF first \in ManagerNonDistinctive /\ Len(citation.parties) > 1
                  THEN citation.parties[2] ELSE first
        short_name == AbbreviatePartyName(chosen)
        base == "*" \o short_name \o "*, " \o Str(citation.volume) \o " "
                \o Str(citation.reporter)
    IN  IF Truthy(citation.volume) /\ Truthy(citation.reporter)
        THEN IF Truthy(pincite) THEN base \o " at " \o pincite \o "."
             ELSE IF Truthy(citation.page) THEN base \o " at " \o citation.page \o "."
             ELSE base \o "."
        ELSE "*" \o short_name \o "*, supra note "
             \o ToString(context.first_occurrence_footnote) \o "."

\* ShortFormManager._format_supra raises IndexError at author.split()[-1]
ManagerFormatSupraRaises(citation, context) ==
    /\ ~Truthy(context.hereinafter_name)
    /\ Truthy(citation.author)
    /\ Split(citation.author) = <<>>

\* ShortFormManager._format_supra
ManagerFormatSupra(citation, context, pincite) ==
    LET prefix == IF Truthy(context.hereinafter_name) THEN context.hereinafter_name
                  ELSE IF Truthy(citation.author)
                       THEN Split(citation.author)[Len(Split(citation.author))]
                       ELSE ""
        note == "supra note " \o ToString(context.first_occurrence_footnote)
        base == IF prefix # "" THEN prefix \o ", " \o note ELSE note
    IN  IF Truthy(pincite) THEN base \o ", at " \o pincite \o "."
        ELSE base \o "."

\* get_short_form raises (the IndexError of _format_supra, line 298)
GetShortFormRaises(manager, citation, current_footnote) ==
    /\ citation.id \in DOMAIN manager.citation_contexts
    /\ ~ManagerCanUseId(manager.footnote_history, citation.id, current_footnote, TRUE)
    /\ citation.type # "case"
    /\ ManagerFormatSupraRaises(citation, manager.citation_contexts[citation.id])

\* get_short_form: (short_form_type, formatted_citation)
ShortFormOf(manager, citation, current_footnote, pincite) ==
    IF citation.id \notin DOMAIN manager.citation_contexts
    THEN <<"full", "">>
    ELSE IF ManagerCanUseId(manager.footnote_history, citation.id, current_footnote, TRUE)
    THEN IF Truthy(pincite) THEN <<"id", "Id. at " \o pincite \o ".">>
         ELSE <<"id", "Id.">>
    ELSE IF citation.type = "case"
    THEN <<"short_case",
           ManagerFormatShortCase(citation, manager.citation_contexts[citation.id], pincite)>>
    ELSE <<"supra",
           ManagerFormatSupra(citation, manager.citation_contexts[citation.id], pincite)>>

\* manager.register_citation(citation, footnote_num)
RegisterCitation(citation, footnote_num) ==
    /\ Len(citations) < MaxCites
    /\ self' = Registered(self, citation, footnote_num)
    /\ citations' = Append(citations, [citation |-> citation, footnote_num |-> footnote_num])
    /\ request' = [method |-> "register_citation", citation |-> citation,
                   footnote_num |-> footnote_num]
    /\ response' = [method |-> "register_citation", raised |-> FALSE, returned |-> <<>>]
    /\ UNCHANGED <<suggestions, seen, footnote_history, last_cite_key, last_fn,
                   footnote_position, pc, fresh>>
    /\ UNCHANGED <<extractVars, endpointVars>>

\* manager.get_short_form(citation, current_footnote, pincite)
GetShortForm(citation, current_footnote, pincite) ==
    /\ request' = [method |-> "get_short_form", citation |-> citation,
                   current_footnote |-> current_footnote, pincite |-> pincite]
    /\ response' =
          IF GetShortFormRaises(self, citation, current_footnote)
          THEN [method |-> "get_short_form", raised |-> TRUE, returned |-> <<>>]
          ELSE [method |-> "get_short_form", raised |-> FALSE,
                returned |-> ShortFormOf(self, citation, current_footnote, pincite)]
    /\ UNCHANGED <<resolverVars, extractVars, endpointVars>>

InitManager ==
    /\ self = InitialManager
    /\ citations = <<>>
    /\ suggestions = <<>>
    /\ seen = EmptyMap
    /\ footnote_history = EmptyMap
    /\ last_cite_key = None
    /\ last_fn = 0
    /\ footnote_position = EmptyMap
    /\ pc = "idle"
    /\ fresh = <<>>
    /\ ExtractIdle
    /\ EndpointIdle
    /\ CallIdle

NextManager ==
    \/ \E citation \in ManagerPool, footnote_num \in ManagerFootnotes :
          RegisterCitation(citation, footnote_num)
    \/ \E citation \in ManagerPool, current_footnote \in 0..(MaxFn + 1),
          pincite \in ManagerPincites :
          GetShortForm(citation, current_footnote, pincite)

SpecManager == InitManager /\ [][NextManager]_vars

\* ================================================== the analyze endpoints
\* main.py, analyze_citations and analyze_comprehensive: extract_all, the
\* completion loop, then one DocumentContextAnalyzer pass over
\* completed_citations. The model starts when extract_all has returned.

\* What extract_all returns: citations as the extractor builds them (a full
\* case complete, a case name and a URL incomplete, a state statute
\* needs_verification), in the order of their positions, one per footnote
ExtractedSamples ==
    {Roe,
     [RoeNameOnly EXCEPT !.status = "incomplete"],
     [CalPenalCode EXCEPT !.status = "needs_verification"],
     [Oyez EXCEPT !.status = "incomplete"]}
Placed(sample, i) ==
    [sample EXCEPT !.position_start = 100 * (i - 1),
                   !.position_end = 100 * (i - 1) + Len(sample.raw_text),
                   !.footnote_number = i]
ExtractedLists ==
    UNION {{[i \in 1..n |-> Placed(samples[i], i)] :
               samples \in [1..n -> ExtractedSamples]} : n \in 0..MaxDocument}

\* How the services answer while one document is analyzed: all with
\* results, all empty, all unreachable, or CrossRef alone with results
AllAnswer(outcome) == [service \in Services |-> outcome]
DocumentNetworks ==
    {AllAnswer("hit"), AllAnswer("miss"), AllAnswer("error"),
     [AllAnswer("miss") EXCEPT !["CrossRef"] = "hit"]}

\* One turn of `for citation in citations` (main.py:125-131). The Citation
\* is one object: what complete_citation and the assignment of
\* suggested_correction change shows in `citations` as well.
CompleteNext(net) ==
    /\ pc = "idle"
    /\ xpc = "done"
    /\ Len(completed_citations) < Len(extracted)
    /\ LET i == Len(completed_citations) + 1
           citation == IF extracted[i].status \in {"incomplete", "needs_verification"}
                       THEN CompleteCitation(extracted[i], net)
                       ELSE extracted[i]
           formatted == [citation EXCEPT
                            !.suggested_correction = FormatCitation(citation, TRUE)]
       IN  /\ completed_citations' = Append(completed_citations, formatted)
           /\ extracted' = [extracted EXCEPT ![i] = formatted]
    /\ UNCHANGED <<family, scan, matched_spans, candidates, markers, xpc, text>>
    /\ UNCHANGED <<resolverVars, callVars>>

\* A variant that does not wait for the loop to end comes first: the
\* properties of the endpoint must tell it from the code.
StartAnalysisEarly ==
    /\ pc = "idle"
    /\ xpc = "done"
    /\ pc' = "loop"
    /\ UNCHANGED <<citations, suggestions, seen, footnote_history, last_cite_key,
                   last_fn, footnote_position, self, fresh>>
    /\ UNCHANGED <<extractVars, endpointVars, callVars>>

\* The loop has ended: DocumentContextAnalyzer() and the call of
\* analyze_citation_sequence(completed_citations) (main.py:134-135)
StartAnalysis ==
    /\ pc = "idle"
    /\ xpc = "done"
    /\ Len(completed_citations) = Len(extracted)
    /\ pc' = "loop"
    /\ UNCHANGED <<citations, suggestions, seen, footnote_history, last_cite_key,
                   last_fn, footnote_position, self, fresh>>
    /\ UNCHANGED <<extractVars, endpointVars, callVars>>

\* analyze_citation_sequence reads the next element of completed_citations
AnalyzeNext ==
    /\ Len(citations) < Len(completed_citations)
    /\ Iterate(completed_citations[Len(citations) + 1],
               completed_citations[Len(citations) + 1].footnote_number)

\* ... and returns when it has read them all
FinishAnalysis ==
    /\ Len(citations) = Len(completed_citations)
    /\ Return

InitAnalyze ==
    /\ ResolverIdle
    /\ CallIdle
    /\ family = 0
    /\ scan = 0
    /\ matched_spans = <<>>
    /\ candidates = <<>>
    /\ markers = <<>>
    /\ xpc = "done"
    /\ text = ""
    /\ extracted \in ExtractedLists
    /\ completed_citations = <<>>

NextAnalyze ==
    \/ \E net \in DocumentNetworks : CompleteNext(net)
    \/ StartAnalysis
    \/ AnalyzeNext
    \/ FinishAnalysis

SpecAnalyze == InitAnalyze /\ [][NextAnalyze]_vars

\* ===================================================== resolver properties
\* Citation i of the list and what the pass decided for it.
Key(i) == GetCitationKey(citations[i])
Fn(i) == FnOf(citations[i])
IsShort(i) == citations[i].is_short_form
Keyed(i) == ~IsShort(i) /\ Truthy(Key(i))
Resolved == 1..Len(suggestions)
FormType(i) == suggestions[i].short_form_type
\* citation j is a full (non-short-form) citation to the authority of citation i
SameAuthority(i, j) == Keyed(j) /\ Key(j) = Key(i)
\* a non-short-form citation whose key was seen before
SeenBefore(i) == Keyed(i) /\ \E j \in 1..(i - 1) : SameAuthority(i, j)
\* the footnote numbers of citations 1..i never go down
InDocumentOrder(i) == \A j \in 2..i : Fn(j - 1) <= Fn(j)
\* what a citation refers to: its key, or its text when it has no key
AuthorityOf(j) == IF Truthy(Key(j)) THEN Key(j) ELSE citations[j].raw_text
\* the authorities fully cited in footnote n before citation i
AuthoritiesIn(n, i) == {AuthorityOf(j) : j \in {k \in 1..(i - 1) : ~IsShort(k) /\ Fn(k) = n}}

\* the literal previous citation is in the same footnote and is that authority
WithinFootnoteLegal(i) ==
    i > 1 /\ Fn(i) > 0 /\ Fn(i - 1) = Fn(i) /\ SameAuthority(i, i - 1)
\* the previous citation closes footnote n-1, and every full citation of
\* footnote n-1 (there is one) is to that authority
CrossFootnoteLegal(i) ==
    /\ i > 1 /\ Fn(i) > 1 /\ Fn(i - 1) = Fn(i) - 1
    /\ \A j \in 1..(i - 1) : (Fn(j) = Fn(i) - 1) => (IsShort(j) \/ SameAuthority(i, j))
    /\ \E j \in 1..(i - 1) : Fn(j) = Fn(i) - 1 /\ SameAuthority(i, j)

\* C1: in a list whose footnote numbers never go down, a non-short-form
\* citation whose key was seen before is given "Id." exactly when its sole
\* intervening prior reference is to the same authority: the literal previous
\* citation in the same footnote, or the whole of the preceding footnote.
C1_IdExactlyWhenSoleReference ==
    \A i \in Resolved :
        (SeenBefore(i) /\ InDocumentOrder(i)) =>
            ((FormType(i) = "id") <=> (WithinFootnoteLegal(i) \/ CrossFootnoteLegal(i)))

\* suggestion i is an "Id." granted by the cross-footnote rule
CrossFootnoteId(i) ==
    /\ ~IsShort(i)
    /\ FormType(i) = "id"
    /\ suggestions[i].explanation = "Same source as the only citation in the previous footnote"

\* C2: when footnote n-1 cites two or more distinct authorities, no citation
\* of footnote n gets "Id." by the cross-footnote rule, whatever kind of
\* authority the second one is.
C2_NoCrossIdAfterTwoAuthorities ==
    \A i \in Resolved :
        CrossFootnoteId(i) => Cardinality(AuthoritiesIn(Fn(i) - 1, i)) < 2

\* two consecutive citations with the same case key in the same footnote
ConsecutiveSameCase(i) ==
    /\ i > 1
    /\ citations[i].type = "case" /\ citations[i - 1].type = "case"
    /\ Keyed(i) /\ SameAuthority(i, i - 1)
    /\ citations[i - 1].footnote_number = citations[i].footnote_number

\* C3 as stated: the second of two consecutive citations with the same case
\* key and the same footnote number gets "Id.", whatever that number is.
C3_WithinFootnoteIdAnyNumber ==
    \A i \in Resolved : ConsecutiveSameCase(i) => FormType(i) = "id"

\* C3 as amended: the second of two consecutive citations with the same case
\* key in the same footnote n >= 1 gets "Id.", whatever the footnote history.
C3_WithinFootnoteId ==
    \A i \in Resolved :
        (ConsecutiveSameCase(i) /\ Fn(i) > 0) =>
            /\ FormType(i) = "id"
            /\ StartsWith(suggestions[i].suggested_form, "Id.")

\* the within-footnote rule has acted in a footnote whose predecessor cites
\* another authority only, so the cross-footnote rule could not have granted
\* the "Id."
C3_Witness ==
    \E i \in Resolved :
        /\ ConsecutiveSameCase(i) /\ Fn(i) > 1
        /\ AuthoritiesIn(Fn(i) - 1, i) # {}
        /\ Key(i) \notin AuthoritiesIn(Fn(i) - 1, i)
        /\ FormType(i) = "id"

\* first citation of the list with key k that is no short form
FirstWithKey(k) == CHOOSE i \in 1..Len(citations) :
    /\ Keyed(i) /\ Key(i) = k
    /\ \A j \in 1..(i - 1) : ~(Keyed(j) /\ Key(j) = k)

\* C4: a non-short-form citation with a key is "full" iff no earlier
\* non-short-form citation has its key; every later occurrence gets id, supra
\* or short_case; the key's CitationContext is the one its first occurrence
\* created, at that occurrence's footnote.
C4_FullIffFirstOccurrence ==
    /\ \A i \in Resolved :
          Keyed(i) =>
            /\ (FormType(i) = "full") <=> ~SeenBefore(i)
            /\ SeenBefore(i) => FormType(i) \in {"id", "supra", "short_case"}
    /\ DOMAIN seen = {Key(i) : i \in {j \in Resolved : Keyed(j)}}
    /\ \A k \in DOMAIN seen :
          /\ seen[k].citation_id = citations[FirstWithKey(k)].id
          /\ seen[k].first_occurrence_footnote = Fn(FirstWithKey(k))

\* a key cited in full in one footnote gets supra in a later one, while
\* another key has its own first occurrence
C4_Witness ==
    \E i \in Resolved :
        /\ Keyed(i) /\ FormType(i) = "supra"
        /\ \E j \in 1..(i - 1) : SameAuthority(i, j) /\ FormType(j) = "full" /\ Fn(j) # Fn(i)
        /\ \E j \in Resolved : Keyed(j) /\ Key(j) # Key(i) /\ FormType(j) = "full"

\* C10: the pass never raises; it returns one suggestion per citation, in
\* order, suggestion i carrying citation i's id and footnote number and a
\* short_form_type among full, id, supra, short_case.
C10_ResolverTotal ==
    /\ pc # "raised"
    /\ pc = "done" => Len(suggestions) = Len(citations)
    /\ \A i \in Resolved :
          /\ suggestions[i].citation_id = citations[i].id
          /\ suggestions[i].footnote_number = Fn(i)
          /\ FormType(i) \in {"full", "id", "supra", "short_case"}

\* ==================================================== extractor properties
Returned == 1..Len(extracted)
\* two half-open spans share a character
SpansMeet(s1, e1, s2, e2) == s1 < e2 /\ s2 < e1
Accepted(i) == candidates[i].accepted
CandidatesMeet(i, j) ==
    SpansMeet(candidates[i].start, candidates[i].end,
              candidates[j].start, candidates[j].end)
\* a returned record stands for candidate i
EmittedAs(i, r) ==
    /\ extracted[r].pattern = candidates[i].pattern
    /\ extracted[r].position_start = candidates[i].start
    /\ extracted[r].position_end = candidates[i].end

\* C5: every citation extract_all has collected or returned has a span with
\* 0 <= position_start < position_end <= len(text), and no two of them share
\* a character.
C5_SpansInTextAndDisjoint ==
    \A i \in Returned :
        /\ 0 <= extracted[i].position_start
        /\ extracted[i].position_start < extracted[i].position_end
        /\ extracted[i].position_end <= TextLen
        /\ \A j \in Returned \ {i} :
              ~SpansMeet(extracted[i].position_start, extracted[i].position_end,
                         extracted[j].position_start, extracted[j].position_end)

\* two citations that touch without overlapping were returned, and the sort
\* has put the later-found one first
C5_Witness ==
    /\ xpc = "done" /\ Len(extracted) = 2
    /\ extracted[1].position_end = extracted[2].position_start
    /\ Accepted(1) /\ Accepted(2)
    /\ candidates[2].start < candidates[1].start

\* the place of a pattern's family in the order the claim gives: cases,
\* statutes, regulations, law reviews, books, Id./supra short forms, URLs
FamilyRank(pattern) ==
    CASE pattern \in {"case_complete", "case_incomplete"} -> 1
      [] pattern \in {"statute_usc", "statute_state"} -> 2
      [] pattern = "regulation_cfr" -> 3
      [] pattern = "law_review" -> 4
      [] pattern = "book" -> 5
      [] pattern \in {"id_citation", "supra_citation"} -> 6
      [] pattern = "url" -> 7

LastMarkerNumber(start) ==
    LET before == {k \in 1..Len(markers) : markers[k].position <= start}
    IN  IF before = {} THEN 0
        ELSE markers[CHOOSE k \in before : \A l \in before : l <= k].number

\* C7: every returned citation, Id./supra short forms included, has a
\* footnote_number, never null: the number of the last footnote marker at or
\* before its position_start, 0 when no marker precedes it.
C7_FootnoteOfLastMarker ==
    xpc = "done" =>
        \A i \in Returned :
            /\ extracted[i].footnote_number # NoneInt
            /\ extracted[i].footnote_number = LastMarkerNumber(extracted[i].position_start)

\* C8: in the returned list, sorted by position_start, footnote_number never
\* decreases (a missing number counting as 0).
C8_FootnotesNonDecreasing ==
    xpc = "done" =>
        \A i \in Returned : \A j \in Returned :
            i < j => FnOf(extracted[i]) <= FnOf(extracted[j])

\* C9: extract_all never raises, and an accepted bare "Id." (no pincite
\* group) is returned as a record without pincite.
C9_ExtractTotal ==
    /\ xpc # "raised"
    /\ xpc = "done" =>
          \A i \in 1..Len(candidates) :
              (Accepted(i) /\ candidates[i].pattern = "id_citation"
                           /\ candidates[i].pincite = None) =>
                  \E r \in Returned : EmittedAs(i, r) /\ extracted[r].pincite = None

\* ================================================= resolver properties, II
WithinFootnoteExplanation ==
    "Same source as immediately preceding citation in this footnote"
\* the step that has just processed a short-form record
ShortFormStep ==
    /\ Len(suggestions') = Len(suggestions) + 1
    /\ citations'[Len(citations')].is_short_form

\* C11: a record with is_short_form set is passed through (suggested form =
\* raw text, short_form_type = its own); the step leaves `seen` and
\* `footnote_history` unchanged, sets last_cite_key to None and last_fn to the
\* record's footnote; and the citation after a short form is never given the
\* within-footnote "Id.".
C11_ShortFormPassThrough ==
    /\ [][ShortFormStep =>
            /\ seen' = seen
            /\ footnote_history' = footnote_history
            /\ last_cite_key' = None
            /\ last_fn' = FnOf(citations'[Len(citations')])
            /\ suggestions'[Len(suggestions')].suggested_form
                  = citations'[Len(citations')].raw_text
            /\ suggestions'[Len(suggestions')].short_form_type
                  = citations'[Len(citations')].short_form_type]_vars
    /\ [](\A i \in Resolved :
            /\ IsShort(i) =>
                  /\ suggestions[i].suggested_form = citations[i].raw_text
                  /\ suggestions[i].short_form_type = citations[i].short_form_type
            /\ (i > 1 /\ IsShort(i - 1)) =>
                  suggestions[i].explanation # WithinFootnoteExplanation)

\* a literal short form stood between two citations of one case in one
\* footnote, and the second of them got the short case form, not "Id."
C11_Witness ==
    \E i \in Resolved :
        /\ i > 2 /\ IsShort(i - 1) /\ Keyed(i) /\ SameAuthority(i, i - 2)
        /\ Fn(i) > 0 /\ Fn(i - 1) = Fn(i) /\ Fn(i - 2) = Fn(i)
        /\ FormType(i) = "short_case"
        /\ DOMAIN seen = {Key(i)}

\* none of the fields the type's key is built from is set
NoKeyFields(citation) ==
    CASE citation.type = "case" -> citation.parties = <<>>
      [] citation.type \in {"statute", "regulation"} ->
            citation.title_number = None /\ citation.section = None
      [] citation.type \in {"law_review", "book"} ->
            citation.author = None /\ citation.title = None
      [] OTHER -> TRUE

\* C12: a citation with none of its type's key fields set is resolved as a
\* first occurrence ("full", rendered as it stands) wherever it stands in the
\* list: it is never taken for a repetition of another citation.
C12_NoKeyFieldsAlwaysFull ==
    \A i \in Resolved :
        (~IsShort(i) /\ NoKeyFields(citations[i])) =>
            /\ FormType(i) = "full"
            /\ suggestions[i].suggested_form = citations[i].raw_text

\* the hereinafter name of citation i's context
AliasOf(i) == seen[Key(i)].hereinafter_name
\* citation i was given a supra form under a hereinafter name
SupraUnderAlias(i) ==
    Keyed(i) /\ FormType(i) = "supra" /\ Key(i) \in DOMAIN seen /\ Truthy(AliasOf(i))

ShortNameOf(citation) ==
    AbbreviatePartyName(
        IF citation.parties[1] \in {"United States", "State", "People", "Commonwealth"}
           /\ Len(citation.parties) > 1
        THEN citation.parties[2] ELSE citation.parties[1])

\* C14: the short case form of a repeated case names that party; when volume
\* and reporter are both set it is "*name*, volume reporter", followed by
\* " at pincite." or, without a pincite, " at page."; the "*name*, supra note
\* N." fallback appears only when volume or reporter is unset.
C14_ShortCaseForm ==
    \A i \in Resolved :
        FormType(i) = "short_case" =>
            LET citation == citations[i]
                form == suggestions[i].suggested_form
                name == "*" \o ShortNameOf(citation) \o "*, "
                fallback == name \o "supra note "
                    \o ToString(seen[Key(i)].first_occurrence_footnote) \o "."
            IN  IF Truthy(citation.volume) /\ Truthy(citation.reporter)
                THEN /\ StartsWith(form, name \o citation.volume \o " " \o citation.reporter)
                     /\ form # fallback
                     /\ Truthy(citation.pincite) =>
                           form = name \o citation.volume \o " " \o citation.reporter
                                  \o " at " \o citation.pincite \o "."
                     /\ (~Truthy(citation.pincite) /\ Truthy(citation.page)) =>
                           form = name \o citation.volume \o " " \o citation.reporter
                                  \o " at " \o citation.page \o "."
                ELSE form = fallback

\* ================================================ extractor properties, II
\* the step that has just tested a candidate span against matched_spans
ClaimStep == Len(candidates') = Len(candidates) + 1
Claimed == candidates'[Len(candidates')]

\* C15: a candidate span is rejected iff it shares a character with a span
\* accepted before it (half-open: spans that only touch do not overlap); a
\* rejection leaves matched_spans and the collected citations unchanged, an
\* acceptance appends exactly that span to matched_spans.
C15_ClaimSpan ==
    [][ClaimStep =>
         /\ ~Claimed.accepted <=>
               \E k \in 1..Len(matched_spans) :
                  SpansMeet(Claimed.start, Claimed.end,
                            matched_spans[k][1], matched_spans[k][2])
         /\ ~Claimed.accepted =>
               matched_spans' = matched_spans /\ extracted' = extracted
         /\ Claimed.accepted =>
               matched_spans' = Append(matched_spans, <<Claimed.start, Claimed.end>>)]_vars

\* one span was accepted, and a later candidate that overlaps it without
\* lying inside it was rejected, leaving one span and one citation
C15_Witness ==
    /\ Len(candidates) = 2 /\ Accepted(1) /\ ~Accepted(2)
    /\ candidates[2].start = candidates[1].start
    /\ candidates[2].end > candidates[1].end
    /\ matched_spans = <<(<<candidates[1].start, candidates[1].end>>)>>
    /\ Len(extracted) = 1

RendererFields ==
    [t \in Formatters |->
        CASE t = "case" -> {"parties", "volume", "reporter", "page", "pincite",
                            "court", "year"}
          [] t = "statute" -> {"title_number", "section", "code", "subsection", "year"}
          [] t = "regulation" -> {"title_number", "section", "year"}
          [] t = "law_review" -> {"author", "title", "volume", "journal", "page",
                                  "pincite", "year"}
          [] t = "book" -> {"author", "title", "edition", "year"}
          [] t = "website" -> {"author", "title", "url", "access_date"}]
NonePopulated(citation) ==
    \A f \in RendererFields[citation.type] : ~Filled(citation, f)
Formatted == response # NoneDict /\ response.method = "format_citation"

\* C20: format_citation returns the literal raw_text for every citation
\* whose type has no renderer, and for every citation whose renderer finds
\* none of the fields it reads populated, whatever the type (book included).
C20_RawTextFallback ==
    Formatted =>
        (request.type \notin Formatters \/ NonePopulated(request)
            => response.returned = request.raw_text)

Completed == response # NoneDict /\ response.method = "complete_citation"
\* Every remote request of the call failed or came back empty
LookupsFailed == \A service \in Services : response.network[service] \in {"miss", "error"}
\* The lookup that needs no request, because the citation or its text holds
\* a title and a section already
AnsweredLocally(citation) ==
    \/ citation.type = "statute" /\ LookupStatute(citation, response.network).found
    \/ ParseStatuteFromText(Strip(citation.raw_text, Blanks)).found
\* type, status, the structural fields and confidence_score: every field
SameCitation(before, after) == after = before

\* C18: when every lookup of a citation hits a network error or finds
\* nothing, complete_citation raises nothing and returns the citation as it
\* was: still not complete, with its type, status, structural fields and
\* confidence_score unchanged.
C18_FailureLeavesCitationUnchanged ==
    Completed /\ LookupsFailed /\ ~AnsweredLocally(request)
        => /\ SameCitation(request, response.returned)
           /\ response.returned.status # "complete"

\* ===================================================== extraction on text
\* The year of a text that ends with a year parenthetical " (yyyy).", or
\* NoneInt
TrailingYear(t) ==
    IF /\ Len(t) >= 8
       /\ SubSeq(t, Len(t) - 7, Len(t) - 6) = " ("
       /\ IsDigits(SubSeq(t, Len(t) - 5, Len(t) - 2))
       /\ SubSeq(t, Len(t) - 1, Len(t)) = ")."
    THEN ParseInt(SubSeq(t, Len(t) - 5, Len(t) - 2))
    ELSE NoneInt

\* C19: a federal statute citation written with a trailing year
\* parenthetical yields exactly one Citation, of type statute and status
\* complete, with code "U.S.C." and the year of the parenthetical;
\* "42 U.S.C. § 1983 (2000)." yields title_number "42", section "1983" and
\* year 2000.
C19_StatuteWithYear ==
    xpc = "done" /\ TrailingYear(text) # NoneInt
        => /\ Len(extracted) = 1
           /\ extracted[1].type = "statute"
           /\ extracted[1].status = "complete"
           /\ extracted[1].code = "U.S.C."
           /\ extracted[1].year = TrailingYear(text)
           /\ text = "42 U.S.C. § 1983 (2000)."
                => /\ extracted[1].title_number = "42"
                   /\ extracted[1].section = "1983"
                   /\ extracted[1].year = 2000

\* ======================================================= endpoint properties
ResolverStarted == pc # "idle"
Enriched(c) == c.lookup_results # NoneDict

\* C17: the resolver's pass begins only after the completion loop has
\* handled every citation of the document, and from then on no citation is
\* enriched or changed: while the resolver runs or has ended,
\* completed_citations holds every extracted citation and neither list
\* changes.
C17_EnrichmentBeforeResolver ==
    /\ [](ResolverStarted => Len(completed_citations) = Len(extracted))
    /\ [][ResolverStarted => UNCHANGED <<completed_citations, extracted>>]_vars
    /\ [][ResolverStarted' /\ ~ResolverStarted
            => completed_citations = extracted]_vars

\* The resolver has returned on a document whose second citation was
\* enriched by a lookup.
C17_Witness ==
    /\ pc = "done"
    /\ Len(completed_citations) >= 2
    /\ Enriched(completed_citations[2])
    /\ Len(suggestions) = Len(completed_citations)


\* ================================================= resolver properties, IV
CrossFootnoteExplanation ==
    "Same source as the only citation in the previous footnote"
\* the step that has just resolved a record, the record and its suggestion
ResolveStep == Len(suggestions') = Len(suggestions) + 1
Current == citations'[Len(citations')]
Emitted == suggestions'[Len(suggestions')]
\* the step resolves a non-short-form citation whose key is already seen
RepeatStep ==
    ResolveStep /\ ~Current.is_short_form /\ KeySeen(GetCitationKey(Current), seen)
\* no record before the current one stands in footnote n
FirstEmittedIn(n) == \A j \in 1..Len(citations) : Fn(j) # n
\* the history of footnote n is exactly the one key k
OnlyKeyOf(n, k) == n \in DOMAIN footnote_history /\ footnote_history[n] = <<k>>

\* C21: for a non-short-form citation whose key is already seen the decision
\* is taken in strict order: "id" if it stands in the last footnote (> 0)
\* right after its own key; else "id" if its footnote differs from the last
\* one, it is the first record of its footnote and the history of the
\* footnote before is exactly its key; else "supra" if it is no case; else
\* "short_case". So [A@fn1, A@fn2] gives "Id.", and the Id. form ends in
\* " at <pincite>." exactly when the citation has a pincite.
C21_DecisionOrder ==
    /\ [][RepeatStep =>
            LET key == GetCitationKey(Current)
                fn == FnOf(Current)
                within == fn = last_fn /\ last_cite_key = key /\ fn > 0
                cross == fn # last_fn /\ FirstEmittedIn(fn) /\ OnlyKeyOf(fn - 1, key)
            IN  /\ Emitted.short_form_type =
                      (IF within \/ cross THEN "id"
                       ELSE IF Current.type # "case" THEN "supra" ELSE "short_case")
                /\ within => Emitted.explanation = WithinFootnoteExplanation
                /\ (~within /\ cross) => Emitted.explanation = CrossFootnoteExplanation
                /\ Emitted.short_form_type = "id" =>
                      Emitted.suggested_form =
                          (IF Truthy(Current.pincite)
                           THEN "Id. at " \o Current.pincite \o "." ELSE "Id.")]_vars
    /\ [](/\ Len(suggestions) >= 2
          /\ Keyed(1) /\ Keyed(2) /\ Key(1) = Key(2) /\ Fn(1) = 1 /\ Fn(2) = 2
          => FormType(2) = "id")

\* [A@fn1, A@fn2] for an article with a pincite: the cross-footnote rule has
\* come before the supra form, and the "Id." carries the pincite
C21_Witness ==
    /\ Len(suggestions) >= 2
    /\ Keyed(1) /\ Keyed(2) /\ Key(1) = Key(2) /\ Fn(1) = 1 /\ Fn(2) = 2
    /\ citations[2].type # "case" /\ Truthy(citations[2].pincite)
    /\ FormType(2) = "id"
    /\ suggestions[2].explanation = CrossFootnoteExplanation
    /\ suggestions[2].suggested_form = "Id. at " \o citations[2].pincite \o "."

\* C22: whenever the pass resolves a citation to "Id.", the record right
\* before it in the list is a citation to the same authority. (A short-form
\* record before it, which names no authority of its own, is not held
\* against the pass here.)
C22_IdFollowsItsReferent ==
    \A i \in Resolved :
        (~IsShort(i) /\ FormType(i) = "id") =>
            /\ i > 1
            /\ IsShort(i - 1) \/ GetCitationKey(citations[i - 1]) = Key(i)

\* no non-short-form citation read so far has key k
NeverCited(k) == \A j \in 1..Len(citations) : ~(Keyed(j) /\ Key(j) = k)

\* C23: during one pass a CitationContext is created exactly once per key,
\* at the key's first occurrence and with that occurrence's footnote as
\* first_occurrence_footnote; it is never deleted or replaced, and its
\* citation_id, first_occurrence_footnote and full_citation never change.
C23_ContextLifecycle ==
    /\ [][/\ \A k \in DOMAIN seen :
                /\ k \in DOMAIN seen'
                /\ seen'[k].citation_id = seen[k].citation_id
                /\ seen'[k].first_occurrence_footnote = seen[k].first_occurrence_footnote
                /\ seen'[k].full_citation = seen[k].full_citation
          /\ \A k \in DOMAIN seen' \ DOMAIN seen :
                /\ ResolveStep /\ ~Current.is_short_form
                /\ k = GetCitationKey(Current)
                /\ NeverCited(k)
                /\ seen'[k].citation_id = Current.id
                /\ seen'[k].first_occurrence_footnote = FnOf(Current)]_vars
    /\ [](DOMAIN seen = {Key(i) : i \in {j \in Resolved : Keyed(j)}})

\* a key first cited in footnote 1 has been cited again in footnote 2, with
\* another key's first occurrence in between, and its context is still the
\* one of footnote 1
C23_Witness ==
    \E i \in Resolved :
        /\ i > 2 /\ Keyed(i) /\ Fn(i) = 2
        /\ SameAuthority(i, 1) /\ Fn(1) = 1
        /\ Keyed(2) /\ Key(2) # Key(1)
        /\ seen[Key(i)].first_occurrence_footnote = 1
        /\ seen[Key(i)].citation_id = citations[1].id
        /\ Cardinality(DOMAIN seen) = 2

\* the non-short-form citations with key k resolved so far
CitedWith(k) == {i \in Resolved : Keyed(i) /\ Key(i) = k}
\* the last of them
LastOf(cited) == CHOOSE i \in cited : \A j \in cited : j <= i
LastWithKey(k) == LastOf(CitedWith(k))
\* the counters of a context against the citations that cited its key
CountersFollow(context, cited) ==
    /\ context.times_cited = Cardinality(cited)
    /\ context.times_cited >= 1
    /\ context.last_used_footnote = Fn(LastOf(cited))

\* C24: after each step of the pass, for every seen key the context's
\* times_cited is the number of non-short-form citations with that key
\* resolved so far (so >= 1) and last_used_footnote is the footnote of the
\* last of them, whichever branch (id, supra, short_case) they took.
C24_CountersFollowTheList ==
    \A k \in DOMAIN seen : CountersFollow(seen[k], CitedWith(k))

\* one key has been cited three times, the later two by "Id." and by a
\* short case form or supra, ending in another footnote than it began
C24_Witness ==
    \E k \in DOMAIN seen :
        /\ seen[k].times_cited = 3
        /\ \E i \in CitedWith(k) : FormType(i) = "id"
        /\ \E i \in CitedWith(k) : FormType(i) \in {"supra", "short_case"}
        /\ seen[k].last_used_footnote # seen[k].first_occurrence_footnote

\* the keys of the keyed citations among citations i.. of footnote n, in
\* list order
RECURSIVE KeysIn(_, _)
KeysIn(n, i) ==
    IF i > Len(suggestions) THEN <<>>
    ELSE IF Keyed(i) /\ Fn(i) = n THEN <<Key(i)>> \o KeysIn(n, i + 1)
    ELSE KeysIn(n, i + 1)
\* the non-short-form citations resolved so far in footnote n
FullCitationsIn(n) == {i \in Resolved : ~IsShort(i) /\ Fn(i) = n}

\* C25: footnote_history[n], n > 0, is the ordered list of what the
\* non-short-form citations resolved so far in footnote n cited, one entry
\* per citation, seen or not; footnote 0 has no entry.
C25_HistoryIsTheFootnote ==
    /\ 0 \notin DOMAIN footnote_history
    /\ DOMAIN footnote_history = {n \in 1..MaxFn : FullCitationsIn(n) # {}}
    /\ \A n \in DOMAIN footnote_history :
          /\ Len(footnote_history[n]) = Cardinality(FullCitationsIn(n))
          /\ footnote_history[n] = KeysIn(n, 1)

\* ================================================== resolver properties, V
\* author names several authors: it contains " & " or two commas
SeveralAuthors(author) ==
    Truthy(author) /\ (Contains(author, " & ") \/ CountChar(author, ",") >= 2)
\* title starts with a generic opener and is longer than 40 characters
GenericTitle(title) ==
    /\ Truthy(title) /\ Len(title) > 40
    /\ \E start \in GenericStarts : StartsWith(title, start)
\* the conditions under which an alias is to be proposed
CallsForAlias(citation) ==
    \/ Truthy(citation.title) /\ Len(citation.title) > 60
    \/ SeveralAuthors(citation.author)
    \/ citation.type \in {"law_review", "book"} /\ GenericTitle(citation.title)

\* C26: on the first occurrence of a citation a hereinafter alias is
\* proposed if and only if its title is longer than 60 characters, or its
\* author contains " & " or two commas, or it is an article or a book whose
\* title starts with a generic opener and is longer than 40 characters; for
\* a citation of any type, with or without a deduplication key.
C26_AliasIffCalledFor ==
    \A i \in Resolved :
        (~IsShort(i) /\ FormType(i) = "full") =>
            ((suggestions[i].add_hereinafter # None) <=> CallsForAlias(citations[i]))

\* citation j is a statute citation to the provision citation i names: the
\* same code, title number and section
SameProvision(i, j) ==
    /\ ~IsShort(j) /\ citations[j].type = "statute"
    /\ citations[j].code = citations[i].code
    /\ citations[j].title_number = citations[i].title_number
    /\ citations[j].section = citations[i].section

\* C28: a statute citation is given a short form (Id. or supra) only if an
\* earlier statute citation of the list has its code, its title number and
\* its section; two state statutes extracted from different codes with the
\* same section number are each resolved as a first occurrence.
C28_ShortFormOnlyForSameCode ==
    \A i \in Resolved :
        (~IsShort(i) /\ citations[i].type = "statute"
            /\ FormType(i) \in {"id", "supra"}) =>
            \E j \in 1..(i - 1) : SameProvision(i, j)

\* the fields a citation's key is built from
KeyFields(citation) ==
    CASE citation.type = "case" -> Take(citation.parties, 2)
      [] citation.type \in {"statute", "regulation"} ->
            <<citation.title_number, citation.section>>
      [] citation.type \in {"law_review", "book"} ->
            <<citation.author, citation.title>>
      [] OTHER -> <<>>

\* C27: the pass takes two citations for the same authority if and only if
\* their keys are equal, and the key is injective: two citations have equal
\* keys only when they have the same type and equal key fields (case: the
\* first two party names; statute, regulation: title number and section;
\* article, book: author and title), whatever the fields hold: a ':', the
\* empty string, or nothing.
C27_KeyInjective ==
    /\ \A i \in Resolved :
          Keyed(i) => ((FormType(i) # "full") <=> \E j \in 1..(i - 1) : SameAuthority(i, j))
    /\ \A i, j \in Resolved :
          (Keyed(i) /\ Keyed(j) /\ Key(i) = Key(j)) =>
              /\ citations[i].type = citations[j].type
              /\ KeyFields(citations[i]) = KeyFields(citations[j])

\* =========================================== properties of the API's analyzer
\* C29: in the analyzer the API module imports, whenever a citation is given
\* "Id." ("Same source as immediately preceding citation") the record right
\* before it in the list refers to the same source; for [A@fn1, B@fn2,
\* A@fn2] the second A gets no "Id.". (A short-form record before it, which
\* names no source of its own, is not held against the analyzer here.)
C29_ApiIdFollowsItsReferent ==
    \A i \in Resolved :
        (~IsShort(i) /\ FormType(i) = "id"
            /\ suggestions[i].explanation = "Same source as immediately preceding citation") =>
            /\ i > 1
            /\ IsShort(i - 1) \/ AuthorityOf(i - 1) = Key(i)

\* ==================================================== ShortFormManager properties
\* The last call was get_short_form and it returned.
ShortFormReturned ==
    /\ response # NoneDict
    /\ response.method = "get_short_form"
    /\ ~response.raised

\* What register_citation has put in footnote n so far.
RegisteredIn(n) ==
    IF n >= 1 /\ n <= Len(self.footnote_history)
    THEN self.footnote_history[n] ELSE <<>>

\* C30: after any sequence of register_citation calls, get_short_form returns
\* ("id", ...) for a citation in footnote n only if the previous footnote
\* holds exactly that one citation and no other citation has been registered
\* in footnote n before it; for a citation that was never registered it
\* returns ("full", "").
C30_ManagerIdFollowsItsReferent ==
    ShortFormReturned =>
        /\ response.returned[1] = "id" =>
              /\ RegisteredIn(request.current_footnote - 1) = <<request.citation.id>>
              /\ \A i \in 1..Len(RegisteredIn(request.current_footnote)) :
                    RegisteredIn(request.current_footnote)[i] = request.citation.id
        /\ (\A i \in 1..Len(citations) : citations[i].citation.id # request.citation.id) =>
              response.returned = <<"full", "">>
====
